---- MODULE Spec2Model ----
(***************************************************************************)
(* A model of uweb3's template engine (src/uweb3/templateparser.py):       *)
(* compilation of a template source into a node tree with a scope stack,   *)
(* and rendering of that tree against a replacements mapping.              *)
(*                                                                         *)
(* A template source is modelled after lexing: it is the sequence of       *)
(* chunks that Template.FUNCTION.split and Template.TagSplit yield, a      *)
(* chunk being a literal text, a tag, or one {{ directive }} with its      *)
(* arguments.  Python objects live in a heap (the sequence `nodes`), and   *)
(* a reference to an object is its index in the heap.                      *)
(***************************************************************************)
EXTENDS Integers, Sequences, FiniteSets, TLC

VARIABLES
  nodes,        \* heap of the template under compilation: nodes[1] is the Template
  scopes,       \* Template.scopes: stack of heap references, scopes[1] is the Template
  err,          \* the exception AddString raised, NoErr when none
  pc,           \* "AddString", "done" or "raised"; "parsed" once Parse was called
  last,         \* the directive of the chunk processed last
  scope_depth,  \* AddString's local scope_depth (line 308)
  src,          \* the chunks of the source processed so far
  kwargs,       \* the replacements of the last Parse
  out,          \* the string the last Parse returned, as its pieces
  raised,       \* the exception the last Parse raised, NoErr when none
  evals,        \* the trace of the last Parse
  found,        \* the registry as the last Parse found it
  file,         \* the template file on disk: its content, its mtime, whether it is there
  file_mtime,   \* FileTemplate._file_mtime
  registry,     \* the entries of TAG_FUNCTIONS set by Parser.RegisterFunction
  parser,       \* the Parser, a dict: the FileTemplate stored under each name
  template_dir, \* the files of Parser.template_dir by name
  io,           \* the last call of the Parser and the file operations it made
  raw,          \* the string a Template was made from, character by character
  htmlsafe_tags, \* the tags of what Parse returned last, set when the parser has noparse
  frames,       \* the calls of FileTemplate.__init__ in progress, the innermost last
  version       \* the modification time the file had when the compiled content was read

cvars == <<nodes, scopes, err, pc, last, scope_depth, src>>
pvars == <<kwargs, out, raised, evals, found>>
fvars == <<file, file_mtime>>
dvars == <<parser, template_dir, io, raw, htmlsafe_tags, frames, version>>
vars == <<cvars, pvars, fvars, registry, dvars>>

-----------------------------------------------------------------------------
(* Bounds of the model.                                                    *)

\* longest source, in chunks, that the compilation specification explores
MaxChunks == 5

\* longest list among the replacement values
MaxItems == 2

\* latest modification time of the template file
MaxMtime == 3

\* most functions written in one tag
MaxFunctions == 2

\* most fragments a template string is put together from
MaxParts == 4

-----------------------------------------------------------------------------
(* Data: tags, chunks, nodes, errors.                                      *)

\* TemplateTag(name, indices, functions)
TemplateTag(name, indices, functions) ==
  [name |-> name, indices |-> indices, functions |-> functions]

NoTag == TemplateTag("", <<>>, <<>>)

\* an exception: its class and what its message reports
Error(type, msg, n) == [type |-> type, msg |-> msg, n |-> n]
NoErr == Error("", "", 0)
TemplateSyntaxError(msg, n) == Error("TemplateSyntaxError", msg, n)
\* an exception of a class that has no message in the model
Exception(type) == Error(type, "", 0)

\* kwds with kwds[name] = val
Set(kwds, name, val) ==
  [k \in DOMAIN kwds \cup {name} |-> IF k = name THEN val ELSE kwds[k]]

\* one chunk of a source: d is "text", "tag" or the directive's first word
\* op and tags are the expression of an if/elif or the tag list of an
\* ifpresent/ifnotpresent/for, text is the literal of a text chunk
Chunk(d, op, tags, aliases, text) ==
  [d |-> d, op |-> op, tags |-> tags, aliases |-> aliases, text |-> text]

\* a heap object.  kind is the class: "Template", "TemplateText", "TemplateTag",
\* "TemplateLoop", "TemplateConditional" or "TemplateConditionalPresence".
\*   body      : list content of a Template or TemplateLoop
\*   branches  : TemplateConditional.branches, each [op, tags, pos, body]
\*   default   : TemplateConditional.default, with hasdefault = (default is not None)
\*   tag       : the TemplateTag itself, or TemplateLoop.tag
\*   text      : the string of a TemplateText
Node(kind, tag, aliases, text, checking_presence) ==
  [kind |-> kind, tag |-> tag, aliases |-> aliases, text |-> text,
   checking_presence |-> checking_presence,
   body |-> <<>>, branches |-> <<>>, default |-> <<>>, hasdefault |-> FALSE]

IsConditional(n) == n.kind \in {"TemplateConditional", "TemplateConditionalPresence"}
IsLoop(n) == n.kind = "TemplateLoop"

-----------------------------------------------------------------------------
(* Compilation (class Template).  A compilation state t is the record      *)
(* [nodes, scopes, err]: the heap, Template.scopes, and the exception      *)
(* raised so far.  A handler that raises leaves what it had done in place. *)

Raise(t, e) == [t EXCEPT !.err = e]

\* self.scopes[-1]
Top(t) == t.scopes[Len(t.scopes)]

\* a new object on the heap; its reference is Len(t.nodes) + 1
Alloc(t, n) == [t EXCEPT !.nodes = Append(@, n)]

\* Template.__init__: an empty list whose only scope is itself
Template == [nodes |-> <<Node("Template", NoTag, <<>>, "", FALSE)>>, scopes |-> <<1>>, err |-> NoErr]

\* TemplateTag.FromString: TAG.match fails on a string that is no tag; such a
\* string is modelled as the tag with the empty name
FromStringFails(tag) == tag.name = ""

\* TemplateConditional.append: to the else clause once it is opened, otherwise
\* to the branch opened last
append(n, part) ==
  IF n.hasdefault
    THEN [n EXCEPT !.default = Append(@, part)]
    ELSE [n EXCEPT !.branches[Len(n.branches)].body = Append(@, part)]

\* Template._AddToOpenScope: list.append for the Template and a loop
_AddToOpenScope(t, item) ==
  LET top == Top(t) IN
  IF IsConditional(t.nodes[top])
    THEN [t EXCEPT !.nodes[top] = append(@, item)]
    ELSE [t EXCEPT !.nodes[top].body = Append(@, item)]

\* Template._StartScope, with the construction of the scope object before it
_StartScope(t, scope) ==
  LET t1 == Alloc(t, scope)
      ref == Len(t1.nodes)
      t2 == _AddToOpenScope(t1, ref)
  IN [t2 EXCEPT !.scopes = Append(@, ref)]

\* isinstance(self.scopes[-1], scope_cls); TemplateConditionalPresence is a
\* subclass of TemplateConditional
IsInstance(n, scope_cls) ==
  IF scope_cls = "TemplateConditional" THEN IsConditional(n) ELSE n.kind = scope_cls

\* mutant: closes whatever scope is open, checking only that one is
_CloseScope_AnyScope(t, scope_cls) ==
  IF Len(t.scopes) = 1
    THEN Raise(t, TemplateSyntaxError("Tried to close, but open scope is", 0))
    ELSE [t EXCEPT !.scopes = SubSeq(@, 1, Len(@) - 1)]

\* Template._CloseScope
_CloseScope(t, scope_cls) ==
  IF ~IsInstance(t.nodes[Top(t)], scope_cls)
    THEN Raise(t, TemplateSyntaxError("Tried to close, but open scope is", 0))
    ELSE [t EXCEPT !.scopes = SubSeq(@, 1, Len(@) - 1)]

\* Template._VerifyOpenScope
_VerifyOpenScope(t, scope_cls) ==
  IF ~IsInstance(t.nodes[Top(t)], scope_cls)
    THEN Raise(t, TemplateSyntaxError("Expected open scope, but scope is", 0))
    ELSE t

\* TemplateConditional.NewBranch and TemplateConditionalPresence.NewBranch.
\* The first keeps a tuple of the expression's nodes; the second keeps
\* map(TemplateTag.FromString, tags.split()), an iterator: pos counts the
\* elements already taken from it.
NewBranch(n, c) ==
  [n EXCEPT !.branches = Append(@, [op |-> c.op, tags |-> c.tags, pos |-> 0, body |-> <<>>])]

\* TemplateConditional.__init__ (checking_presence defaults to True)
TemplateConditional(kind, c, checking_presence) ==
  NewBranch(Node(kind, NoTag, <<>>, "", checking_presence), c)

\* mutant: a branch is added whether or not the else clause is open
Elif_AfterElse(t, ref, c) == [t EXCEPT !.nodes[ref] = NewBranch(@, c)]

\* TemplateConditional.Elif, on the object at reference ref
Elif(t, ref, c) ==
  IF t.nodes[ref].hasdefault
    THEN Raise(t, TemplateSyntaxError("elif clause may not follow else", 0))
    ELSE [t EXCEPT !.nodes[ref] = NewBranch(@, c)]

\* TemplateConditional.Else
Else(t, ref) ==
  IF t.nodes[ref].hasdefault
    THEN Raise(t, TemplateSyntaxError("Only one else clause is allowed", 0))
    ELSE [t EXCEPT !.nodes[ref].hasdefault = TRUE, !.nodes[ref].default = <<>>]

\* Template._ExtendText for one node that TagSplit yields
_ExtendText(t, c) ==
  LET part == IF c.d = "tag"
                THEN Node("TemplateTag", c.tags[1], <<>>, "", FALSE)
                ELSE Node("TemplateText", NoTag, <<>>, c.text, FALSE)
      t1 == Alloc(t, part)
  IN _AddToOpenScope(t1, Len(t1.nodes))

\* Template._TemplateConstructFor with TemplateLoop.__init__
_TemplateConstructFor(t, c) ==
  IF FromStringFails(c.tags[1])
    THEN Raise(t, TemplateSyntaxError("Tag in for loop is not valid", 0))
    ELSE _StartScope(t, Node("TemplateLoop", c.tags[1], c.aliases, "", FALSE))

_TemplateConstructEndfor(t) == _CloseScope(t, "TemplateLoop")

_TemplateConstructIf(t, c) ==
  _StartScope(t, TemplateConditional("TemplateConditional", c, TRUE))

\* TemplateConditionalPresence(' '.join(nodes)): checking_presence is left at
\* its default, True
_TemplateConstructIfpresent(t, c) ==
  _StartScope(t, TemplateConditional("TemplateConditionalPresence", c, TRUE))

\* TemplateConditionalPresence(' '.join(nodes), checking_presence=True)
_TemplateConstructIfnotpresent(t, c) ==
  _StartScope(t, TemplateConditional("TemplateConditionalPresence", c, TRUE))

_TemplateConstructElif(t, c) ==
  LET t1 == _VerifyOpenScope(t, "TemplateConditional")
  IN IF t1.err # NoErr THEN t1 ELSE Elif(t1, Top(t1), c)

_TemplateConstructElse(t) ==
  LET t1 == _VerifyOpenScope(t, "TemplateConditional")
  IN IF t1.err # NoErr THEN t1 ELSE Else(t1, Top(t1))

_TemplateConstructEndif(t) == _CloseScope(t, "TemplateConditional")

\* self.AddString('<input type="hidden" value="{}" name="xsrf" />'.format(value)):
\* the string has no {{ }}, so it is one call of _ExtendText, which adds the
\* text before the value, the value where it is a tag, and the text after it
_TemplateConstructXsrf(t, c) ==
  IF c.tags = <<>>
    THEN _ExtendText(t, Chunk("text", "", <<>>, <<>>, "<input xsrf />"))
    ELSE _ExtendText(_ExtendText(_ExtendText(t, Chunk("text", "", <<>>, <<>>, "<input")),
                                 Chunk("tag", "", c.tags, <<>>, "")),
                     Chunk("text", "", <<>>, <<>>, "xsrf />"))

RECURSIVE AddFile(_, _)
\* Template._TemplateConstructInline(name), the name in c.text
_TemplateConstructInline(t, c) == AddFile(t, c.text)

\* the directive names for which Template has a _TemplateConstruct method
Directives ==
  {"for", "endfor", "if", "ifpresent", "ifnotpresent", "elif", "else", "endif",
   "inline", "xsrf"}

\* the characters of the words that the model writes first in a {{ }}, and of
\* the names of the _TemplateConstruct methods
Spelling ==
  [word \in Directives \cup {"IF", "If", "ENDIF", "Else", "XSRF", "foo", "Foo", "if_",
                             "For", "Endfor", "Ifpresent", "Ifnotpresent", "Elif",
                             "Endif", "Inline", "Xsrf"} |->
     CASE word = "for" -> <<"f", "o", "r">>
       [] word = "endfor" -> <<"e", "n", "d", "f", "o", "r">>
       [] word = "if" -> <<"i", "f">>
       [] word = "ifpresent" -> <<"i", "f", "p", "r", "e", "s", "e", "n", "t">>
       [] word = "ifnotpresent" ->
            <<"i", "f", "n", "o", "t", "p", "r", "e", "s", "e", "n", "t">>
       [] word = "elif" -> <<"e", "l", "i", "f">>
       [] word = "else" -> <<"e", "l", "s", "e">>
       [] word = "endif" -> <<"e", "n", "d", "i", "f">>
       [] word = "inline" -> <<"i", "n", "l", "i", "n", "e">>
       [] word = "xsrf" -> <<"x", "s", "r", "f">>
       [] word = "IF" -> <<"I", "F">>
       [] word = "If" -> <<"I", "f">>
       [] word = "ENDIF" -> <<"E", "N", "D", "I", "F">>
       [] word = "Else" -> <<"E", "l", "s", "e">>
       [] word = "XSRF" -> <<"X", "S", "R", "F">>
       [] word = "foo" -> <<"f", "o", "o">>
       [] word = "Foo" -> <<"F", "o", "o">>
       [] word = "if_" -> <<"i", "f", "_">>
       [] word = "For" -> <<"F", "o", "r">>
       [] word = "Endfor" -> <<"E", "n", "d", "f", "o", "r">>
       [] word = "Ifpresent" -> <<"I", "f", "p", "r", "e", "s", "e", "n", "t">>
       [] word = "Ifnotpresent" ->
            <<"I", "f", "n", "o", "t", "p", "r", "e", "s", "e", "n", "t">>
       [] word = "Elif" -> <<"E", "l", "i", "f">>
       [] word = "Endif" -> <<"E", "n", "d", "i", "f">>
       [] word = "Inline" -> <<"I", "n", "l", "i", "n", "e">>
       [] word = "Xsrf" -> <<"X", "s", "r", "f">>]

\* str.upper for one cased character
Upper ==
  [char \in {"d", "e", "f", "i", "l", "n", "o", "p", "r", "s", "t", "x"} |->
     CASE char = "d" -> "D" [] char = "e" -> "E" [] char = "f" -> "F" [] char = "i" -> "I"
       [] char = "l" -> "L" [] char = "n" -> "N" [] char = "o" -> "O" [] char = "p" -> "P"
       [] char = "r" -> "R" [] char = "s" -> "S" [] char = "t" -> "T" [] char = "x" -> "X"]

IsLower(char) == char \in DOMAIN Upper
IsUpper(char) == \E low \in DOMAIN Upper : Upper[low] = char
Lower(char) == CHOOSE low \in DOMAIN Upper : Upper[low] = char

RECURSIVE TitleFrom(_, _)
\* str.title from word[i] on: a cased character is made upper case after an
\* uncased one and at the start, lower case after a cased one
TitleFrom(word, i) ==
  IF i > Len(word) THEN <<>>
  ELSE <<IF i > 1 /\ (IsLower(word[i - 1]) \/ IsUpper(word[i - 1]))
           THEN (IF IsUpper(word[i]) THEN Lower(word[i]) ELSE word[i])
           ELSE (IF IsLower(word[i]) THEN Upper[word[i]] ELSE word[i])>>
         \o TitleFrom(word, i + 1)

\* function.title()
Title(function) == TitleFrom(Spelling[function], 1)

\* getattr(self, '_TemplateConstruct%s' % title)(*nodes), title the characters
\* of function.title()
_TemplateConstruct(t, c, title) ==
  CASE title = Spelling["For"]          -> _TemplateConstructFor(t, c)
    [] title = Spelling["Endfor"]       -> _TemplateConstructEndfor(t)
    [] title = Spelling["If"]           -> _TemplateConstructIf(t, c)
    [] title = Spelling["Ifpresent"]    -> _TemplateConstructIfpresent(t, c)
    [] title = Spelling["Ifnotpresent"] -> _TemplateConstructIfnotpresent(t, c)
    [] title = Spelling["Elif"]         -> _TemplateConstructElif(t, c)
    [] title = Spelling["Else"]         -> _TemplateConstructElse(t)
    [] title = Spelling["Endif"]        -> _TemplateConstructEndif(t)
    [] title = Spelling["Inline"]       -> _TemplateConstructInline(t, c)
    [] title = Spelling["Xsrf"]         -> _TemplateConstructXsrf(t, c)
    [] OTHER -> Raise(t, TemplateSyntaxError("Unknown template function", 0))

\* Template._ExtendFunction: nodes.pop(0) of a {{ }} without a word raises
\* IndexError
_ExtendFunction(t, c) ==
  IF c.d = "" THEN Raise(t, Error("IndexError", "pop from empty list", 0))
  ELSE _TemplateConstruct(t, c, Title(c.d))

\* one iteration of AddString's loop over the chunks (lines 310-314)
ExtendChunk(t, c) ==
  IF c.d \in {"text", "tag"} THEN _ExtendText(t, c) ELSE _ExtendFunction(t, c)

\* mutant: the depth is compared with the wrong sign
AddStringEnd_Sign(t, depth) ==
  LET scope_diff == Len(t.scopes) - depth IN
  IF scope_diff = 0 THEN t
  ELSE IF scope_diff > 0
    THEN Raise(t, TemplateSyntaxError("Closed scopes too many", scope_diff))
    ELSE Raise(t, TemplateSyntaxError("Template left open scopes", -scope_diff))

\* the end of AddString (lines 315-319): the scope depth must be what it was
AddStringEnd(t, depth) ==
  LET scope_diff == Len(t.scopes) - depth IN
  IF scope_diff = 0 THEN t
  ELSE IF scope_diff < 0
    THEN Raise(t, TemplateSyntaxError("Closed scopes too many", -scope_diff))
    ELSE Raise(t, TemplateSyntaxError("Template left open scopes", scope_diff))

RECURSIVE AddStringFrom(_, _, _)
AddStringFrom(t, raw_template, index) ==
  IF t.err # NoErr \/ index > Len(raw_template) THEN t
  ELSE AddStringFrom(ExtendChunk(t, raw_template[index]), raw_template, index + 1)

\* Template.AddString
AddString(t, raw_template) ==
  LET t1 == AddStringFrom(t, raw_template, 1)
  IN IF t1.err # NoErr THEN t1 ELSE AddStringEnd(t1, Len(t.scopes))

(* Templates that inline templates: a Template made by a Parser has the    *)
(* Parser, and {{ inline NAME }} takes parser[NAME], which loads the file  *)
(* when the name is not stored.  The compilation state of such a Template  *)
(* has the fields parser (what the Parser stores), dir (the files of its   *)
(* template_dir) and depth (the calls of FileTemplate.__init__ that are in *)
(* progress).                                                              *)

\* the calls of FileTemplate.__init__ that can be nested before the
\* interpreter raises RecursionError
RecursionLimit == 3

\* {{ inline NAME }}
InlineC(name) == Chunk("inline", "", <<>>, <<>>, name)

\* self.parser is not None
HasParser(t) == "parser" \in DOMAIN t

\* a FileTemplate as the Parser stores it
Stored(t, disk) ==
  [nodes |-> t.nodes, scopes |-> t.scopes, err |-> NoErr, src |-> disk.content,
   file_mtime |-> disk.mtime]

\* a Template of the Parser before AddString
TemplateOf(cache, dir, depth) ==
  [nodes |-> Template.nodes, scopes |-> Template.scopes, err |-> NoErr,
   parser |-> cache, dir |-> dir, depth |-> depth]

\* what leaves FileTemplate.__init__ and Parser.AddTemplate when e is raised
\* in them: both catch IOError, which TemplateReadError is, and raise
\* TemplateReadError; any other exception passes
Caught(e) == IF e.type = "TemplateReadError" THEN Exception("TemplateReadError") ELSE e

\* Parser.AddTemplate(location) from the return of AddString in
\* FileTemplate.__init__, t what AddString left: the template is stored when
\* nothing was raised
AddTemplateOf(t, location, disk) ==
  IF t.err = NoErr
    THEN [parser |-> Set(t.parser, location, Stored(t, disk)), err |-> NoErr]
    ELSE [parser |-> t.parser, err |-> Caught(t.err)]

\* os.path.getmtime and open(..).read() succeed on the file of the name
CanRead(dir, template) ==
  template \in DOMAIN dir /\ dir[template].exists /\ dir[template].readable

\* Parser.__getitem__(template) in a call of depth `depth`
__getitem__(cache, dir, template, depth) ==
  IF template \in DOMAIN cache THEN [parser |-> cache, err |-> NoErr]
  ELSE IF depth >= RecursionLimit
    THEN [parser |-> cache, err |-> Exception("RecursionError")]
  ELSE IF ~CanRead(dir, template)
    THEN [parser |-> cache, err |-> Exception("TemplateReadError")]
  ELSE AddTemplateOf(AddString(TemplateOf(cache, dir, depth + 1), dir[template].content),
                     template, dir[template])

\* a FileTemplate that is a part of another template: the object the Parser
\* stores under the name
Inlined(name) == Node("FileTemplate", NoTag, <<>>, name, FALSE)

\* self._AddToOpenScope(self.parser[name]), p what parser[name] gave
AddFileOf(t, name, p) ==
  IF p.err # NoErr THEN [t EXCEPT !.err = p.err, !.parser = p.parser]
  ELSE _AddToOpenScope(Alloc([t EXCEPT !.parser = p.parser], Inlined(name)),
                       Len(t.nodes) + 1)

\* Template.AddFile(name)
AddFile(t, name) ==
  IF ~HasParser(t)
    THEN Raise(t, Error("TypeError",
                        "The template requires parser for adding template files", 0))
    ELSE AddFileOf(t, name, __getitem__(t.parser, t.dir, name, t.depth))

\* Template(raw_template): the compiled template, or the exception in err
Compile(raw_template) == AddString(Template, raw_template)


-----------------------------------------------------------------------------
(* Values of the replacements.  A Python value is the record               *)
(* [kind, n, s, items]: an int or bool (n), None, a str (s, of at most one *)
(* character, so that s[0] and iter(s) are s itself), a list or tuple      *)
(* (items), a dict or an object with attributes (items: its entries, each  *)
(* the pair of a key and a value, in insertion order), or a safe string    *)
(* wrapping the value it was made from.                                    *)

Value(kind, n, str, items) == [kind |-> kind, n |-> n, s |-> str, items |-> items]
PyInt(n) == Value("int", n, "", <<>>)
PyBool(b) == Value("bool", IF b THEN 1 ELSE 0, "", <<>>)
None == Value("NoneType", 0, "", <<>>)
PyStr(str) == Value("str", 0, str, <<>>)
PyList(items) == Value("list", 0, "", items)
Entry(key, val) == Value("entry", 0, "", <<key, val>>)
PyDict(entries) == Value("dict", 0, "", entries)
Object(entries) == Value("object", 0, "", entries)
HTMLsafestring(d) == Value("HTMLsafestring", 0, "", <<d>>)
URLqueryargumentsafestring(d) == Value("URLqueryargumentsafestring", 0, "", <<d>>)

\* isinstance(value, Basesafestring)
IsBasesafestring(v) == v.kind \in {"HTMLsafestring", "URLqueryargumentsafestring"}

\* len(value), for the values that have one
HasLen(v) == v.kind \in {"list", "dict", "str"}
LenOf(v) == IF v.kind = "str" THEN (IF v.s = "" THEN 0 ELSE 1) ELSE Len(v.items)

\* bool(value)
Truthy(v) ==
  CASE v.kind \in {"int", "bool"} -> v.n # 0
    [] v.kind = "NoneType" -> FALSE
    [] HasLen(v) -> LenOf(v) > 0
    [] OTHER -> TRUE

\* the result of an evaluation: the value, or the exception raised
Ok(val) == [err |-> NoErr, val |-> val]
Fail(e) == [err |-> e, val |-> None]

HasKey(entries, key) == \E i \in 1..Len(entries) : entries[i].items[1] = key
AtKey(entries, key) ==
  entries[CHOOSE i \in 1..Len(entries) : entries[i].items[1] = key].items[2]

\* iter(value) as the sequence of what it yields
IsIterable(v) == HasLen(v)
IterOf(v) ==
  CASE v.kind = "list" -> v.items
    [] v.kind = "dict" -> [i \in 1..Len(v.items) |-> v.items[i].items[1]]
    [] v.kind = "str" -> IF v.s = "" THEN <<>> ELSE <<v>>
    [] OTHER -> <<>>

\* haystack[key], key an int or a str value
GetItem(haystack, key) ==
  CASE haystack.kind = "dict" ->
         IF HasKey(haystack.items, key) THEN Ok(AtKey(haystack.items, key))
         ELSE Fail(Exception("KeyError"))
    [] haystack.kind \in {"list", "str"} /\ key.kind = "int" ->
         IF key.n < LenOf(haystack) THEN Ok(IterOf(haystack)[key.n + 1])
         ELSE Fail(Exception("IndexError"))
    [] OTHER -> Fail(Exception("TypeError"))

\* getattr(haystack, name): the built-in types have no attribute of the names
\* the model uses as indices
GetAttr(haystack, name) ==
  IF haystack.kind = "object" /\ HasKey(haystack.items, PyStr(name))
    THEN Ok(AtKey(haystack.items, PyStr(name)))
    ELSE Fail(Exception("AttributeError"))

\* str.isdigit and int(needle) for the indices the model uses
IntOf == [needle \in {"0", "1", "2"} |-> CASE needle = "0" -> 0 [] needle = "1" -> 1 [] OTHER -> 2]
IsDigit(needle) == needle \in DOMAIN IntOf

\* try: r  except types: fallback
Except(r, types, fallback) == IF r.err.type \in types THEN fallback ELSE r

\* TemplateTag._GetIndex
_GetIndex(haystack, needle) ==
  Except(IF IsDigit(needle)
           THEN Except(GetItem(haystack, PyInt(IntOf[needle])), {"KeyError"},
                       GetItem(haystack, PyStr(needle)))
           ELSE Except(GetItem(haystack, PyStr(needle)), {"KeyError", "TypeError"},
                       GetAttr(haystack, needle)),
         {"AttributeError", "KeyError", "IndexError"},
         Fail(Error("TemplateKeyError", "Item has no index, key or attribute", 0)))

RECURSIVE Reduce(_, _, _)
\* the loop of GetValue over the indices, lines 786-787, r the value so far
Reduce(r, indices, i) ==
  IF r.err # NoErr \/ i > Len(indices) THEN r
  ELSE Reduce(_GetIndex(r.val, indices[i]), indices, i + 1)

\* TemplateTag.GetValue
GetValue(tag, replacements) ==
  IF tag.name \notin DOMAIN replacements
    THEN Fail(Error("TemplateNameError", "No replacement with name", 0))
    ELSE Reduce(Ok(replacements[tag.name]), tag.indices, 1)

\* the names of TAG_FUNCTIONS
TAG_FUNCTIONS == {"default", "html", "raw", "url", "items", "values", "sorted", "len"}

\* insertion of an int into a sorted sequence of ints
RECURSIVE Insert(_, _)
Insert(sorted, v) ==
  IF sorted = <<>> THEN <<v>>
  ELSE IF v.n < sorted[1].n THEN <<v>> \o sorted
  ELSE <<sorted[1]>> \o Insert(Tail(sorted), v)

RECURSIVE Sorted(_)
Sorted(items) == IF items = <<>> THEN <<>> ELSE Insert(Sorted(Tail(items)), items[1])

\* the functions that are registered with Parser.RegisterFunction:
\* wrap = lambda v: [v], and the factory limit = lambda n: lambda v: v[:n]
Functions == {"wrap", "limit"}

\* value[:n]
Slice(value, n) ==
  CASE value.kind = "list" ->
         Ok(PyList(SubSeq(value.items, 1, IF n.n < Len(value.items) THEN n.n
                                          ELSE Len(value.items))))
    [] value.kind = "str" -> Ok(IF n.n = 0 THEN PyStr("") ELSE value)
    [] OTHER -> Fail(Exception("TypeError"))

\* a lookup in TAG_FUNCTIONS as the module defines it
Lookup_AsDefined(name) == IF name \in TAG_FUNCTIONS THEN name ELSE ""

\* TAG_FUNCTIONS[name]: the function registered under the name, that of the
\* module when none was, "" when the name is no key
Lookup(name) ==
  IF name \in DOMAIN registry THEN registry[name]
  ELSE IF name \in TAG_FUNCTIONS THEN name
  ELSE ""

\* function(value).  sorted is computed for what the model iterates:
\* sequences of ints and sequences of at most one element.
Call(function, value) ==
  CASE function \in {"default", "html"} ->
         Ok(IF value.kind = "HTMLsafestring" THEN value ELSE HTMLsafestring(value))
    [] function = "raw" -> Ok(value)
    [] function = "url" -> Ok(URLqueryargumentsafestring(value))
    [] function = "items" ->
         IF value.kind = "dict"
           THEN Ok(PyList([i \in 1..Len(value.items) |-> PyList(value.items[i].items)]))
           ELSE Fail(Exception("AttributeError"))
    [] function = "values" ->
         IF value.kind = "dict"
           THEN Ok(PyList([i \in 1..Len(value.items) |-> value.items[i].items[2]]))
           ELSE Fail(Exception("AttributeError"))
    [] function = "len" ->
         IF HasLen(value) THEN Ok(PyInt(LenOf(value))) ELSE Fail(Exception("TypeError"))
    [] function = "sorted" ->
         IF ~IsIterable(value) THEN Fail(Exception("TypeError"))
         ELSE IF \A i \in 1..Len(IterOf(value)) : IterOf(value)[i].kind = "int"
           THEN Ok(PyList(Sorted(IterOf(value))))
         ELSE IF Len(IterOf(value)) <= 1 THEN Ok(PyList(IterOf(value)))
         ELSE Fail(Exception("TypeError"))
    [] function = "wrap" -> Ok(PyList(<<value>>))
    [] function = "limit" -> Ok(Value("function", 0, "", <<value>>))
    [] OTHER -> Fail(Exception("KeyError"))

\* TAG_FUNCTIONS[name](value)
CallFunction(name, value) == Call(Lookup(name), value)

\* r(value) for the result r of function(*args): only what limit returns can
\* be called
CallResult(r, value) ==
  IF r.err # NoErr THEN r
  ELSE IF r.val.kind = "function" THEN Slice(value, r.val.items[1])
  ELSE Fail(Exception("TypeError"))

\* TAG_FUNCTIONS[name](*args)(value): every function of the model takes one
\* argument
CallClosure(name, args, value) ==
  IF Lookup(name) = "" THEN Fail(Exception("KeyError"))
  ELSE IF Len(args) # 1 THEN Fail(Exception("TypeError"))
  ELSE CallResult(Call(Lookup(name), args[1]), value)

\* FUNC_CLOSURE.match(func) for the functions the model writes in its tags:
\* (\w+)\((.*)\) matches a name of word characters that is followed by its
\* argument list, and `my-fn(1)`, which the TAG expression accepts as a
\* function, is not matched
FUNC_CLOSURE ==
  [func \in {"limit(1)", "nofn(1)"} |->
     [func |-> IF func = "limit(1)" THEN "limit" ELSE "nofn", args |-> <<PyInt(1)>>]]

\* TemplateTag.ApplyFunction
ApplyFunction(func, value) ==
  Except(Except(IF func \in DOMAIN FUNC_CLOSURE
                  THEN CallClosure(FUNC_CLOSURE[func].func, FUNC_CLOSURE[func].args, value)
                  ELSE CallFunction(func, value),
                {"TypeError"},
                Fail(Error("TemplateTypeError", "Templatefunction raised an TypeError", 0))),
         {"KeyError"},
         Fail(Error("TemplateNameError", "Unknown template tag function", 0)))

RECURSIVE ApplyFunctions(_, _, _)
\* the loop of TemplateTag.Parse over the functions, lines 837-838, r the
\* value so far
ApplyFunctions(r, functions, i) ==
  IF r.err # NoErr \/ i > Len(functions) THEN r
  ELSE ApplyFunctions(ApplyFunction(functions[i], r.val), functions, i + 1)

RECURSIVE CallFunctions(_, _, _)
\* the loop of TemplateTag.Iterator over the functions, lines 855-856, r the
\* value so far
CallFunctions(r, functions, i) ==
  IF r.err # NoErr \/ i > Len(functions) THEN r
  ELSE CallFunctions(CallFunction(functions[i], r.val), functions, i + 1)

\* iter(value), line 857: the sequence iterated
Iter(f) ==
  IF f.err # NoErr THEN f
  ELSE IF ~IsIterable(f.val) THEN Fail(Exception("TypeError"))
  ELSE Ok(PyList(IterOf(f.val)))

\* TemplateTag.Iterator from the result g of GetValue
IteratorOf(g, functions) ==
  IF g.err.type = "TemplateKeyError" THEN Ok(PyList(<<>>))
  ELSE Iter(CallFunctions(g, functions, 1))

\* TemplateTag.Iterator: the sequence iterated, or the exception
Iterator(tag, kwds) == IteratorOf(GetValue(tag, kwds), tag.functions)

-----------------------------------------------------------------------------
(* Rendering.  The output string is the sequence of its pieces: a literal   *)
(* text, the text of a tag that was not replaced, or str() of a value.  A   *)
(* rendering state r is the record [nodes, out, err, evals]: the heap (a    *)
(* render advances the iterators it holds), the pieces joined so far, the   *)
(* exception raised, and the trace of what was evaluated with which         *)
(* replacements.                                                            *)

Piece(p, text, tag, val) == [p |-> p, text |-> text, tag |-> tag, val |-> val]
\* TemplateText.Parse
TextPiece(text) == Piece("text", text, NoTag, None)
\* TemplateTag.__str__
TagPiece(tag) == Piece("tag", "", tag, None)
\* str(value)
ValuePiece(val) == Piece("value", "", NoTag, val)

Range(seq) == {seq[i] : i \in 1..Len(seq)}

\* kwds.get(name)
Get(kwds, name) == IF name \in DOMAIN kwds THEN kwds[name] ELSE None

Event(ev, ref, i, kwds, val) == [ev |-> ev, ref |-> ref, i |-> i, kwds |-> kwds, val |-> val]

Emit(r, piece) == [r EXCEPT !.out = Append(@, piece)]
Note(r, event) == [r EXCEPT !.evals = Append(@, event)]

\* str(value), line 842, of the value f the functions returned
Str(f) == [err |-> f.err, piece |-> ValuePiece(f.val)]

\* mutant: the default function is applied to safe strings too
TagParseOf_DefaultAlways(g, tag) ==
  IF g.err.type \in {"TemplateKeyError", "TemplateNameError"}
    THEN [err |-> NoErr, piece |-> TagPiece(tag)]
  ELSE IF g.err # NoErr THEN [err |-> g.err, piece |-> TagPiece(tag)]
  ELSE IF tag.functions # <<>> THEN Str(ApplyFunctions(g, tag.functions, 1))
  ELSE Str(Ok(HTMLsafestring(g.val)))

\* TemplateTag.Parse from the result g of GetValue
TagParseOf(g, tag) ==
  IF g.err.type \in {"TemplateKeyError", "TemplateNameError"}
    THEN [err |-> NoErr, piece |-> TagPiece(tag)]
  ELSE IF g.err # NoErr THEN [err |-> g.err, piece |-> TagPiece(tag)]
  ELSE IF tag.functions # <<>> THEN Str(ApplyFunctions(g, tag.functions, 1))
  ELSE IF ~IsBasesafestring(g.val) THEN Str(CallFunction("default", g.val))
  ELSE Str(g)

\* TemplateTag.Parse: the piece, or the exception
TagParse(tag, kwds) == TagParseOf(GetValue(tag, kwds), tag)

\* bool() of what eval returned, line 593
Bool(v, pos) == [err |-> v.err, truth |-> v.err = NoErr /\ Truthy(v.val), pos |-> pos]

\* mutant: the tags of the expression are all resolved before it is evaluated
Eval_Eager(a, branch, kwds) ==
  CASE branch.op = "tag" -> a
    [] branch.op = "not" -> IF a.err # NoErr THEN a ELSE Ok(PyBool(~Truthy(a.val)))
    [] branch.op = "and" ->
         IF a.err # NoErr THEN a
         ELSE IF GetValue(branch.tags[2], kwds).err # NoErr \/ Truthy(a.val)
           THEN GetValue(branch.tags[2], kwds)
         ELSE a
    [] branch.op = "or" ->
         IF a.err # NoErr THEN a
         ELSE IF GetValue(branch.tags[2], kwds).err # NoErr \/ ~Truthy(a.val)
           THEN GetValue(branch.tags[2], kwds)
         ELSE a

\* eval() of the expression, a the value of its first tag
Eval(a, branch, kwds) ==
  CASE branch.op = "tag" -> a
    [] branch.op = "not" -> IF a.err # NoErr THEN a ELSE Ok(PyBool(~Truthy(a.val)))
    [] branch.op = "and" ->
         IF a.err # NoErr \/ ~Truthy(a.val) THEN a ELSE GetValue(branch.tags[2], kwds)
    [] branch.op = "or" ->
         IF a.err # NoErr \/ Truthy(a.val) THEN a ELSE GetValue(branch.tags[2], kwds)

\* TemplateConditional.Expression: eval() of the expression, for the
\* expressions `[a]`, `not [a]`, `[a] and [b]`, `[a] or [b]`; a tag's value is
\* retrieved (LazyTagValueRetrieval.__getitem__) when eval reaches its name
Expression(branch, kwds) ==
  Bool(Eval(GetValue(branch.tags[1], kwds), branch, kwds), branch.pos)

RECURSIVE PresenceScan(_, _, _)
\* lines 633-638 for the tag at pos + 1, g the result of its GetValue
PresenceTag(g, tags, pos, kwds) ==
  IF g.err.type \in {"TemplateKeyError", "TemplateNameError"}
    THEN [err |-> NoErr, truth |-> ~Truthy(Get(kwds, "checking_presence")), pos |-> pos + 1]
  ELSE IF g.err # NoErr THEN [err |-> g.err, truth |-> FALSE, pos |-> pos + 1]
  ELSE PresenceScan(tags, pos + 1, kwds)

\* TemplateConditionalPresence.Expression: `tags` is the map iterator the
\* branch holds, of which pos elements were taken by earlier calls
PresenceScan(tags, pos, kwds) ==
  IF pos >= Len(tags)
    THEN [err |-> NoErr, truth |-> Truthy(Get(kwds, "checking_presence")), pos |-> pos]
  ELSE IF FromStringFails(tags[pos + 1])
    THEN [err |-> TemplateSyntaxError("Invalid Tag syntax", 0), truth |-> FALSE, pos |-> pos + 1]
  ELSE PresenceTag(GetValue(tags[pos + 1], kwds), tags, pos, kwds)

RECURSIVE Update(_, _, _, _)
\* replacements.update(zip(aliases, item))
Update(replacements, aliases, values, i) ==
  IF i > Len(aliases) \/ i > Len(values) THEN replacements
  ELSE Update(Set(replacements, aliases[i], values[i]), aliases, values, i + 1)

\* mutant: an alias that already has a value keeps it
Bind_KeepFirst(aliases, item, replacements) ==
  IF aliases[1] \in DOMAIN replacements
    THEN [err |-> NoErr, kwds |-> replacements]
    ELSE [err |-> NoErr, kwds |-> Set(replacements, aliases[1], item)]

\* mutant: the item is unpacked without the check of its length
Bind_NoCheck(aliases, item, replacements) ==
  IF Len(aliases) = 1
    THEN [err |-> NoErr, kwds |-> Set(replacements, aliases[1], item)]
    ELSE [err |-> NoErr, kwds |-> Update(replacements, aliases, IterOf(item), 1)]

\* TemplateLoop.Parse, lines 688-698: the replacements of one iteration
Bind(aliases, item, replacements) ==
  IF Len(aliases) = 1
    THEN [err |-> NoErr, kwds |-> Set(replacements, aliases[1], item)]
  ELSE IF ~HasLen(item)
    THEN [err |-> Error("TemplateValueError", "Cannot unpack type", Len(aliases)),
          kwds |-> replacements]
  ELSE IF Len(aliases) # LenOf(item)
    THEN [err |-> Error("TemplateValueError", "Cannot unpack values", Len(aliases)),
          kwds |-> replacements]
  ELSE [err |-> NoErr, kwds |-> Update(replacements, aliases, IterOf(item), 1)]

RECURSIVE ParseNode(_, _, _)
RECURSIVE ParseParts(_, _, _, _)
RECURSIVE ParseBranches(_, _, _, _)
RECURSIVE ParseItems(_, _, _, _, _)

\* ''.join(part.Parse(**kwds) for part in parts)
ParseParts(r, parts, i, kwds) ==
  IF r.err # NoErr \/ i > Len(parts) THEN r
  ELSE ParseParts(ParseNode(r, parts[i], kwds), parts, i + 1, kwds)

\* mutant: the branches after the first true one are evaluated too, and the
\* body of each true branch is rendered
Branch_NoReturn(r, ref, i, kw, e) ==
  IF e.err # NoErr THEN Raise(r, e.err)
  ELSE IF e.truth
    THEN ParseBranches(ParseParts(r, r.nodes[ref].branches[i].body, 1, kw), ref, i + 1, kw)
  ELSE ParseBranches(r, ref, i + 1, kw)

\* TemplateConditional.Parse, lines 616-617, for branch i, whose expression
\* evaluated to e
Branch(r, ref, i, kw, e) ==
  IF e.err # NoErr THEN Raise(r, e.err)
  ELSE IF e.truth THEN ParseParts(r, r.nodes[ref].branches[i].body, 1, kw)
  ELSE ParseBranches(r, ref, i + 1, kw)

\* the evaluation e of the expression of branch i has advanced the iterator the
\* branch holds
Evaluated(r, ref, i, kw, e) ==
  Branch(Note([r EXCEPT !.nodes[ref].branches[i].pos = e.pos],
              Event("expr", ref, i, kw, PyBool(e.truth))),
         ref, i, kw, e)

\* TemplateConditional.Parse from branch i on, kw the replacements of lines
\* 614-615
Branches(r, ref, i, kw) ==
  LET n == r.nodes[ref] IN
  IF i > Len(n.branches)
    THEN IF n.default # <<>> THEN ParseParts(r, n.default, 1, kw) ELSE r
  ELSE Evaluated(r, ref, i, kw,
                 IF n.kind = "TemplateConditionalPresence"
                   THEN PresenceScan(n.branches[i].tags, n.branches[i].pos, kw)
                   ELSE Expression(n.branches[i], kw))

\* TemplateConditional.Parse from branch i on
ParseBranches(r, ref, i, kwds) ==
  Branches(r, ref, i,
           IF r.nodes[ref].kind = "TemplateConditionalPresence"
             THEN Set(kwds, "checking_presence", PyBool(TRUE)) ELSE kwds)

\* TemplateLoop.Parse for item i, b its replacements
ParseItem(r, ref, items, i, b) ==
  IF b.err # NoErr THEN Raise(r, b.err)
  ELSE ParseItems(ParseParts(Note(r, Event("item", ref, i, b.kwds, items[i])),
                             r.nodes[ref].body, 1, b.kwds),
                  ref, items, i + 1, b.kwds)

\* TemplateLoop.Parse from item i on
ParseItems(r, ref, items, i, replacements) ==
  IF r.err # NoErr \/ i > Len(items) THEN r
  ELSE ParseItem(r, ref, items, i, Bind(r.nodes[ref].aliases, items[i], replacements))

\* the part at ref is a TemplateTag, p what its Parse returned
ParseTag(r, ref, kwds, p) ==
  IF p.err # NoErr THEN Raise(Note(r, Event("tag", ref, 0, kwds, p.piece.val)), p.err)
  ELSE Emit(Note(r, Event("tag", ref, 0, kwds, p.piece.val)), p.piece)

\* the part at ref is a TemplateLoop, it what its tag's Iterator returned
ParseLoop(r, ref, kwds, it) ==
  IF it.err # NoErr THEN Raise(r, it.err)
  ELSE ParseItems(r, ref, it.val.items, 1, kwds)

\* part.Parse(**kwds) for the object at reference ref
ParseNode(r, ref, kwds) ==
  LET n == r.nodes[ref] IN
  CASE n.kind = "TemplateText" -> Emit(r, TextPiece(n.text))
    [] n.kind = "TemplateTag" -> ParseTag(r, ref, kwds, TagParse(n.tag, kwds))
    [] IsConditional(n) -> ParseBranches(r, ref, 1, kwds)
    [] IsLoop(n) -> ParseLoop(r, ref, kwds, Iterator(n.tag, kwds))
    [] OTHER -> r

\* Template.Parse(**kwds): the join of the parts of the Template itself
TemplateParse(ns, kwds) ==
  ParseParts([nodes |-> ns, out |-> <<>>, err |-> NoErr, evals |-> <<>>],
             ns[1].body, 1, kwds)

-----------------------------------------------------------------------------
(* The compilation of every source of at most MaxChunks chunks, one chunk  *)
(* per step: Template(raw_template) runs AddString on a fresh Template.    *)

TagX == TemplateTag("x", <<>>, <<>>)

TextChunks == {Chunk("text", "", <<>>, <<>>, "t")}
TagChunks == {Chunk("tag", "", <<TagX>>, <<>>, "")}
\* {{ for a in [x] }} and {{ for a in x }}, whose tag is not valid
ForChunks == {Chunk("for", "", <<tag>>, <<"a">>, "") : tag \in {TagX, NoTag}}
IfChunks == {Chunk("if", "tag", <<TagX>>, <<>>, "")}
IfpresentChunks == {Chunk("ifpresent", "all", <<TagX>>, <<>>, "")}
IfnotpresentChunks == {Chunk("ifnotpresent", "all", <<TagX>>, <<>>, "")}
ElifChunks == {Chunk("elif", "tag", <<TagX>>, <<>>, "")}
NoArgs(d) == Chunk(d, "", <<>>, <<>>, "")

\* no Parse was called yet
NoKwds == [k \in {} |-> None]
NoParse ==
  kwargs = NoKwds /\ out = <<>> /\ raised = NoErr /\ evals = <<>> /\ found = <<>>

\* TAG_FUNCTIONS as the module defines it: nothing was registered
NoFunction == registry = <<>>

\* no Parser was made
NoParser ==
  /\ parser = <<>> /\ template_dir = <<>> /\ io = <<>> /\ raw = <<>> /\ htmlsafe_tags = <<>>
  /\ frames = <<>>
  /\ version = 0

\* a file of the file system: what os.path.getmtime and open(..).read() find
File(content, mtime, exists, readable) ==
  [content |-> content, mtime |-> mtime, exists |-> exists, readable |-> readable]

\* a Template that was not loaded from a file
NoFile == file = File(<<>>, 0, FALSE, FALSE) /\ file_mtime = 0

\* the compilation state held in the variables
Self == [nodes |-> nodes, scopes |-> scopes, err |-> err]

InitCompile ==
  /\ nodes = Template.nodes
  /\ scopes = Template.scopes
  /\ err = NoErr
  /\ pc = "AddString"
  /\ last = "start"
  /\ scope_depth = Len(Template.scopes)
  /\ src = <<>>
  /\ NoParse
  /\ NoFile
  /\ NoFunction
  /\ NoParser

\* the handler's result becomes the state; an exception ends the compilation
Becomes(t, c) ==
  /\ pc = "AddString"
  /\ Len(src) < MaxChunks
  /\ nodes' = t.nodes
  /\ scopes' = t.scopes
  /\ err' = t.err
  /\ pc' = IF t.err # NoErr THEN "raised" ELSE "AddString"
  /\ last' = c.d
  /\ src' = Append(src, c)
  /\ UNCHANGED <<scope_depth, pvars, fvars, registry, dvars>>

ExtendText == \E c \in TextChunks \cup TagChunks : Becomes(_ExtendText(Self, c), c)
For == \E c \in ForChunks : Becomes(_TemplateConstructFor(Self, c), c)
Endfor == Becomes(_TemplateConstructEndfor(Self), NoArgs("endfor"))
If == \E c \in IfChunks : Becomes(_TemplateConstructIf(Self, c), c)
Ifpresent == \E c \in IfpresentChunks : Becomes(_TemplateConstructIfpresent(Self, c), c)
Ifnotpresent ==
  \E c \in IfnotpresentChunks : Becomes(_TemplateConstructIfnotpresent(Self, c), c)
ElifStep == \E c \in ElifChunks : Becomes(_TemplateConstructElif(Self, c), c)
ElseStep == Becomes(_TemplateConstructElse(Self), NoArgs("else"))
Endif == Becomes(_TemplateConstructEndif(Self), NoArgs("endif"))

\* the source ends: lines 315-319
EndOfSource ==
  /\ pc = "AddString"
  /\ LET t == AddStringEnd(Self, scope_depth) IN
       /\ err' = t.err
       /\ pc' = IF t.err # NoErr THEN "raised" ELSE "done"
  /\ last' = "end"
  /\ UNCHANGED <<nodes, scopes, scope_depth, src, pvars, fvars, registry, dvars>>

NextCompile ==
  \/ ExtendText
  \/ For
  \/ Endfor
  \/ If
  \/ Ifpresent
  \/ Ifnotpresent
  \/ ElifStep
  \/ ElseStep
  \/ Endif
  \/ EndOfSource

SpecCompile == InitCompile /\ [][NextCompile]_vars


-----------------------------------------------------------------------------
(* Rendering compiled templates: a Template is compiled from one of the    *)
(* sources below and then rendered any number of times, each time with     *)
(* replacements chosen among Replacements.                                 *)

Tag(name) == TemplateTag(name, <<>>, <<>>)
TagAt(name, index) == TemplateTag(name, <<index>>, <<>>)

\* chunks of a source
TextC(text) == Chunk("text", "", <<>>, <<>>, text)
TagC(tag) == Chunk("tag", "", <<tag>>, <<>>, "")
ForC(aliases, tag) == Chunk("for", "", <<tag>>, aliases, "")
IfC(op, tags) == Chunk("if", op, tags, <<>>, "")
ElifC(op, tags) == Chunk("elif", op, tags, <<>>, "")
IfpresentC(tags) == Chunk("ifpresent", "all", tags, <<>>, "")
IfnotpresentC(tags) == Chunk("ifnotpresent", "all", tags, <<>>, "")

\* [T] tail, for the tags whose name or index may fail to resolve
TagSources ==
  {<<TagC(tag), TextC("tail")>> :
     tag \in {Tag("x"), TagAt("x", "0"), TagAt("x", "k"), TemplateTag("x", <<"0", "k">>, <<>>)}}

\* {{ if E1 }}A{{ elif E2 }}B{{ else }}C{{ endif }}tail, with and without else
IfSources ==
  {<<IfC(op, <<Tag("x"), Tag("y")>>), TextC("A"), ElifC("tag", <<Tag("y")>>), TextC("B")>>
     \o rest \o <<NoArgs("endif"), TextC("tail")>> :
     op \in {"tag", "not", "and", "or"}, rest \in {<<>>, <<NoArgs("else"), TextC("C")>>}}

\* {{ ifpresent TAGS }}have{{ else }}none{{ endif }}tail, and with ifnotpresent
PresenceSource(d, tags) ==
  <<Chunk(d, "all", tags, <<>>, ""), TextC("have"), NoArgs("else"), TextC("none"),
    NoArgs("endif"), TextC("tail")>>
PresenceTags == {<<Tag("x")>>, <<TagAt("x", "0")>>, <<Tag("x"), Tag("y")>>}
PresenceSources ==
  {PresenceSource(d, tags) : d \in {"ifpresent", "ifnotpresent"}, tags \in PresenceTags}

\* {{ for ALIASES in [x] }}BODY{{ endfor }}[a], the body showing the aliases
LoopSource(aliases, body) ==
  <<ForC(aliases, Tag("x"))>> \o body \o <<NoArgs("endfor"), TagC(Tag("a"))>>
LoopSources ==
  { LoopSource(<<"a">>, <<TagC(Tag("a")), TextC(";")>>),
    LoopSource(<<"a", "b">>, <<TagC(Tag("a")), TagC(Tag("b")), TextC(";")>>),
    LoopSource(<<"a">>, <<IfC("tag", <<Tag("a")>>), TextC("A"), ElifC("tag", <<Tag("y")>>),
                          TextC("B"), NoArgs("endif")>>),
    LoopSource(<<"a">>, <<ForC(<<"b">>, Tag("a")), TagC(Tag("b")), NoArgs("endfor"),
                          TagC(Tag("a")), TagC(Tag("b"))>>) }

\* {{ if [x] and [y:0] }}yes{{ else }}no{{ endif }}tail, and with or
LazySources ==
  {<<IfC(op, <<Tag("x"), TagAt("y", "0")>>), TextC("yes"), NoArgs("else"), TextC("no"),
     NoArgs("endif"), TextC("tail")>> : op \in {"and", "or"}}

\* {{ for a in [x:INDEX] }}[a];{{ endfor }}tail
IndexedLoop(index) ==
  <<ForC(<<"a">>, TagAt("x", index)), TagC(Tag("a")), TextC(";"), NoArgs("endfor"),
    TextC("tail")>>
IndexedLoopSources == {IndexedLoop(index) : index \in {"0", "k"}}

\* {{ if [x] }}[T]{{ else }}[T]{{ endif }}[T] for the tag [checking_presence],
\* and with ifpresent and ifnotpresent
BodySource(first) ==
  <<first, TagC(Tag("checking_presence")), NoArgs("else"), TagC(Tag("checking_presence")),
    NoArgs("endif"), TagC(Tag("checking_presence"))>>
BodySources ==
  {BodySource(first) :
     first \in {IfC("tag", <<Tag("x")>>), IfpresentC(<<Tag("x")>>), IfnotpresentC(<<Tag("x")>>)}}

RenderSources ==
  TagSources \cup IfSources \cup PresenceSources \cup LoopSources \cup LazySources
    \cup IndexedLoopSources \cup BodySources

\* the sequences over S of length at most n
RECURSIVE SeqsUpTo(_, _)
SeqsUpTo(S, n) ==
  IF n = 0 THEN {<<>>}
  ELSE LET shorter == SeqsUpTo(S, n - 1)
       IN shorter \cup {Append(q, v) : q \in shorter, v \in S}

\* the values of the replacements
Scalars == {PyInt(0), PyInt(1), None, PyStr("s")}
Items == {PyInt(1), PyList(<<PyInt(0), PyInt(1)>>)}
Lists == {PyList(q) : q \in SeqsUpTo(Items, MaxItems)}
Dicts == {PyDict(<<Entry(PyStr(key), PyInt(1))>>) : key \in {"k", "0"}}
\* an object with the attribute k, a dict with the keys 0 and "0", a list of a dict
Nested ==
  { Object(<<Entry(PyStr("k"), PyInt(1))>>),
    PyDict(<<Entry(PyInt(0), PyInt(0)), Entry(PyStr("0"), PyInt(1))>>),
    PyList(<<PyDict(<<Entry(PyStr("k"), PyInt(1))>>)>>) }
ValuesOf(name) ==
  CASE name = "x" -> Scalars \cup Lists \cup Dicts \cup Nested
    [] name = "y" -> {PyInt(0), PyInt(1)}
    [] name = "a" -> {PyInt(0)}
Names == {"x", "y", "a"}
Replacements ==
  {f \in UNION {[D -> UNION {ValuesOf(name) : name \in Names}] : D \in SUBSET Names} :
     \A name \in DOMAIN f : f[name] \in ValuesOf(name)}

InitRender ==
  /\ src \in RenderSources
  /\ nodes = Compile(src).nodes
  /\ scopes = Compile(src).scopes
  /\ err = Compile(src).err
  /\ err = NoErr
  /\ pc = "done"
  /\ last = "end"
  /\ scope_depth = Len(Template.scopes)
  /\ NoParse
  /\ NoFile
  /\ NoFunction
  /\ NoParser

\* Template.Parse has returned r: what the render changed on the heap stays
\* changed when it raises
Returns(r, replacements) ==
  /\ nodes' = r.nodes
  /\ kwargs' = replacements
  /\ out' = IF r.err = NoErr THEN r.out ELSE <<>>
  /\ raised' = r.err
  /\ evals' = r.evals
  /\ found' = registry
  /\ pc' = "parsed"

\* Template.Parse(**replacements)
Parse ==
  \E replacements \in Replacements :
    /\ Returns(TemplateParse(nodes, replacements), replacements)
    /\ UNCHANGED <<scopes, err, last, scope_depth, src, fvars, registry, dvars>>

NextRender == Parse

SpecRender == InitRender /\ [][NextRender]_vars

-----------------------------------------------------------------------------
(* The functions of a tag: a Template of one tag, or of one loop over a    *)
(* tag, is rendered while functions are registered.                        *)

\* the functions as they are written in the tags: of the module, registered
\* ones without and with an argument list, and ones in no registry
Written == {"raw", "html", "len", "limit", "limit(1)", "my-fn(1)", "nofn", "nofn(1)"}

\* the names functions are registered under
Registered == {"limit", "my-fn"}

\* [x|f|g] tail
PipelineTag(functions) == <<TagC(TemplateTag("x", <<>>, functions)), TextC("tail")>>

\* {{ for a in [x|f] }}[a]{{ endfor }}
PipelineLoop(functions) ==
  <<ForC(<<"a">>, TemplateTag("x", <<>>, functions)), TagC(Tag("a")), NoArgs("endfor")>>

PipelineSources ==
  {PipelineTag(functions) : functions \in SeqsUpTo(Written, MaxFunctions)}
    \cup {PipelineLoop(functions) : functions \in SeqsUpTo(Written, 1)}

PipelineValues ==
  {PyInt(1), PyList(<<PyInt(1), PyInt(0)>>), PyStr("s"), HTMLsafestring(PyStr("s")),
   URLqueryargumentsafestring(PyStr("s"))}

PipelineReplacements == UNION {[D -> PipelineValues] : D \in SUBSET {"x"}}

InitPipeline ==
  /\ src \in PipelineSources
  /\ nodes = Compile(src).nodes
  /\ scopes = Compile(src).scopes
  /\ err = Compile(src).err
  /\ pc = "done"
  /\ last = "end"
  /\ scope_depth = Len(Template.scopes)
  /\ NoParse
  /\ NoFile
  /\ NoFunction
  /\ NoParser

\* Template.Parse(**replacements) of the compiled tag or loop
ParsePipeline ==
  \E replacements \in PipelineReplacements :
    /\ Returns(TemplateParse(nodes, replacements), replacements)
    /\ UNCHANGED <<scopes, err, last, scope_depth, src, fvars, registry, dvars>>

\* Parser.RegisterFunction(name, function)
RegisterFunction ==
  \E name \in Registered, function \in Functions :
    /\ registry' = Set(registry, name, function)
    /\ UNCHANGED <<cvars, pvars, fvars, dvars>>

NextPipeline ==
  \/ ParsePipeline
  \/ RegisterFunction

SpecPipeline == InitPipeline /\ [][NextPipeline]_vars

-----------------------------------------------------------------------------
(* A FileTemplate: loaded from the template file, rendered any number of   *)
(* times while the file is rewritten or removed.  src is the content the   *)
(* template was last compiled from.                                        *)

\* what the file may hold: templates that compile, and one that leaves a
\* scope open
FileSources ==
  { <<TagC(Tag("x")), TextC("tail")>>,
    PresenceSource("ifpresent", <<Tag("x")>>),
    <<ForC(<<"a">>, Tag("x")), TagC(Tag("a")), NoArgs("endfor")>>,
    <<IfC("tag", <<Tag("x")>>), TextC("A")>> }

FileReplacements ==
  UNION {[D -> {PyInt(1), PyList(<<PyInt(1)>>)}] : D \in SUBSET {"x"}}

\* a call and the file operations it did
Called(call, template, done) == [call |-> call, template |-> template, done |-> done]

\* the file operations of FileTemplate.__init__, up to the one that fails
FileTemplateIO(disk) ==
  IF ~disk.exists THEN <<"getmtime">>
  ELSE IF ~disk.readable THEN <<"getmtime", "open">>
  ELSE <<"getmtime", "open", "read">>

\* the file operations of FileTemplate.ReloadIfModified
ReloadIfModifiedIO(t, disk) ==
  IF ~disk.exists THEN <<"getmtime">>
  ELSE IF disk.mtime > t.file_mtime
    THEN IF disk.readable THEN <<"getmtime", "open", "read">> ELSE <<"getmtime", "open">>
  ELSE <<"getmtime">>

\* FileTemplate.__init__ has returned: the file was there and compiled
InitFile ==
  /\ src \in FileSources
  /\ Compile(src).err = NoErr
  /\ nodes = Compile(src).nodes
  /\ scopes = Compile(src).scopes
  /\ err = NoErr
  /\ pc = "done"
  /\ last = "end"
  /\ scope_depth = Len(Template.scopes)
  /\ NoParse
  /\ file = File(src, 1, TRUE, TRUE)
  /\ file_mtime = 1
  /\ NoFunction
  /\ parser = <<>>
  /\ template_dir = <<>>
  /\ io = Called("__init__", "", FileTemplateIO(file))
  /\ raw = <<>>
  /\ htmlsafe_tags = <<>>
  /\ frames = <<>>
  /\ version = 0

ReloadIfModified_NoTry(t, disk) ==
  IF ~disk.exists THEN [t EXCEPT !.err = Exception("TemplateReadError")]
  ELSE IF disk.mtime > t.file_mtime /\ ~disk.readable
    THEN [t EXCEPT !.err = Exception("TemplateReadError")]
  ELSE IF disk.mtime > t.file_mtime
    THEN LET t1 == AddString(Template, disk.content) IN
         [nodes |-> t1.nodes, scopes |-> t1.scopes, err |-> t1.err, src |-> disk.content,
          file_mtime |-> IF t1.err = NoErr THEN disk.mtime ELSE t.file_mtime]
  ELSE t

ReloadIfModified_NotEqual(t, disk) ==
  IF ~disk.exists THEN t
  ELSE IF disk.mtime # t.file_mtime /\ ~disk.readable THEN t
  ELSE IF disk.mtime # t.file_mtime
    THEN LET t1 == AddString(Template, disk.content) IN
         [nodes |-> t1.nodes, scopes |-> t1.scopes, err |-> t1.err, src |-> disk.content,
          file_mtime |-> IF t1.err = NoErr THEN disk.mtime ELSE t.file_mtime]
  ELSE t

\* FileTemplate.ReloadIfModified on the template t = [nodes, scopes, err, src,
\* file_mtime].  `del self[:]` and `self.scopes = [self]` leave a Template with
\* no parts: the heap is the one of an empty Template.
ReloadIfModified(t, disk) ==
  IF ~disk.exists THEN t
  ELSE IF disk.mtime > t.file_mtime /\ ~disk.readable THEN t
  ELSE IF disk.mtime > t.file_mtime
    THEN LET t1 == AddString(Template, disk.content) IN
         [nodes |-> t1.nodes, scopes |-> t1.scopes, err |-> t1.err, src |-> disk.content,
          file_mtime |-> IF t1.err = NoErr THEN disk.mtime ELSE t.file_mtime]
  ELSE t

\* FileTemplate.Parse, lines 492-493, t the template ReloadIfModified left: a
\* TemplateSyntaxError of the reload leaves Parse before anything is rendered
Reloaded(t, replacements) ==
  /\ scopes' = t.scopes
  /\ err' = t.err
  /\ src' = t.src
  /\ file_mtime' = t.file_mtime
  /\ IF t.err # NoErr
       THEN /\ nodes' = t.nodes
            /\ kwargs' = replacements
            /\ out' = <<>>
            /\ raised' = t.err
            /\ evals' = <<>>
            /\ found' = registry
            /\ pc' = "parsed"
       ELSE Returns(TemplateParse(t.nodes, replacements), replacements)

\* FileTemplate.Parse(**replacements)
FileParse ==
  \E replacements \in FileReplacements :
    /\ Reloaded(ReloadIfModified([nodes |-> nodes, scopes |-> scopes, err |-> NoErr,
                                  src |-> src, file_mtime |-> file_mtime], file),
                replacements)
    /\ io' = Called("Parse", "", ReloadIfModifiedIO([file_mtime |-> file_mtime], file))
    /\ UNCHANGED <<last, scope_depth, file, registry, parser, template_dir, raw, htmlsafe_tags, frames, version>>

\* the file is written, or replaced by another file, which may be an older one
WriteFile ==
  /\ \E content \in FileSources, mtime \in 1..MaxMtime :
       file' = File(content, mtime, TRUE, TRUE)
  /\ UNCHANGED <<cvars, pvars, file_mtime, registry, dvars>>

\* the file is removed
RemoveFile ==
  /\ file.exists
  /\ file' = [file EXCEPT !.exists = FALSE]
  /\ UNCHANGED <<cvars, pvars, file_mtime, registry, dvars>>

\* the permission to read the file is taken away
ProtectFile ==
  /\ file.exists /\ file.readable
  /\ file' = [file EXCEPT !.readable = FALSE]
  /\ UNCHANGED <<cvars, pvars, file_mtime, registry, dvars>>

NextFile ==
  \/ FileParse
  \/ WriteFile
  \/ RemoveFile
  \/ ProtectFile

SpecFile == InitFile /\ [][NextFile]_vars

-----------------------------------------------------------------------------
(* A Parser: a dict of FileTemplates by name, loaded from template_dir on  *)
(* the first use of a name, while the files are written and removed.  io   *)
(* is the last call made on the Parser with the file operations it did.    *)

ParserNames == {"a", "b"}

\* what a file may hold: a template that compiles and one that leaves a scope
\* open
ParserSources ==
  { <<TagC(Tag("x")), TextC("tail")>>,
    <<IfC("tag", <<Tag("x")>>), TextC("A")>> }

ParserReplacements == UNION {[D -> {PyInt(1)}] : D \in SUBSET {"x"}}

\* Parser(path): no template is preloaded; the directory holds any files
InitParser ==
  /\ src = <<>>
  /\ nodes = Template.nodes
  /\ scopes = Template.scopes
  /\ err = NoErr
  /\ pc = "done"
  /\ last = "end"
  /\ scope_depth = Len(Template.scopes)
  /\ NoParse
  /\ NoFile
  /\ NoFunction
  /\ parser = <<>>
  /\ template_dir \in [ParserNames ->
                         {File(<<>>, 0, FALSE, FALSE)}
                           \cup {File(content, 1, TRUE, TRUE) : content \in ParserSources}]
  /\ io = Called("__init__", "", <<>>)
  /\ raw = <<>>
  /\ htmlsafe_tags = <<>>
  /\ frames = <<>>
  /\ version = 0

\* FileTemplate.__init__ on the file disk: the template [nodes, scopes, err,
\* src, file_mtime], err the exception it raises
FileTemplate(disk) ==
  IF ~disk.exists \/ ~disk.readable
    THEN [nodes |-> Template.nodes, scopes |-> Template.scopes,
          err |-> Exception("TemplateReadError"), src |-> <<>>, file_mtime |-> 0]
    ELSE [nodes |-> Compile(disk.content).nodes, scopes |-> Compile(disk.content).scopes,
          err |-> Compile(disk.content).err, src |-> disk.content,
          file_mtime |-> disk.mtime]

AddTemplate_StoreAlways(cache, location, t) == Set(cache, location, t)

\* Parser.AddTemplate, t the FileTemplate made: `self[name or location] = ..`
\* is not reached when FileTemplate raises
AddTemplate(cache, location, t) ==
  IF t.err = NoErr THEN Set(cache, location, t) ELSE cache

\* a call on the Parser returns or raises e before any template is rendered
ParserReturns(call, template, done, cache, e) ==
  /\ io' = Called(call, template, done)
  /\ parser' = cache
  /\ kwargs' = NoKwds
  /\ out' = <<>>
  /\ raised' = e
  /\ evals' = <<>>
  /\ found' = registry

\* Parser.__getitem__(template)
ParserGetItem ==
  \E template \in ParserNames :
    /\ IF template \in DOMAIN parser
         THEN ParserReturns("__getitem__", template, <<>>, parser, NoErr)
         ELSE ParserReturns("__getitem__", template,
                            FileTemplateIO(template_dir[template]),
                            AddTemplate(parser, template,
                                        FileTemplate(template_dir[template])),
                            FileTemplate(template_dir[template]).err)
    /\ UNCHANGED <<cvars, fvars, registry, template_dir, raw, htmlsafe_tags, frames, version>>

\* FileTemplate.Parse of the stored template: t is the template that
\* ReloadIfModified left, r what Template.Parse returns on it
ParserRenders(template, done, t, r, replacements) ==
  /\ io' = Called("Parse", template, done)
  /\ parser' = Set(parser, template, [t EXCEPT !.nodes = IF t.err = NoErr THEN r.nodes ELSE @])
  /\ kwargs' = replacements
  /\ out' = IF t.err = NoErr /\ r.err = NoErr THEN r.out ELSE <<>>
  /\ raised' = IF t.err = NoErr THEN r.err ELSE t.err
  /\ evals' = IF t.err = NoErr THEN r.evals ELSE <<>>
  /\ found' = registry

ParserReloads(template, done, t, replacements) ==
  ParserRenders(template, done, t, TemplateParse(t.nodes, replacements), replacements)

ParserParses(template, done, t, replacements) ==
  ParserReloads(template, done \o ReloadIfModifiedIO(t, template_dir[template]),
                ReloadIfModified([t EXCEPT !.err = NoErr], template_dir[template]),
                replacements)

\* Parser.Parse(template, **replacements)
ParserParse ==
  \E template \in ParserNames, replacements \in ParserReplacements :
    /\ IF template \in DOMAIN parser
         THEN ParserParses(template, <<>>, parser[template], replacements)
         ELSE IF FileTemplate(template_dir[template]).err # NoErr
           THEN ParserReturns("Parse", template, FileTemplateIO(template_dir[template]),
                              parser, FileTemplate(template_dir[template]).err)
           ELSE ParserParses(template, FileTemplateIO(template_dir[template]),
                             FileTemplate(template_dir[template]), replacements)
    /\ UNCHANGED <<cvars, fvars, registry, template_dir, raw, htmlsafe_tags, frames, version>>

\* a file of the directory is written: its modification time advances
WriteTemplate ==
  \E template \in ParserNames, content \in ParserSources :
    /\ template_dir[template].mtime < MaxMtime
    /\ template_dir' = [template_dir EXCEPT
                          ![template] = File(content, @.mtime + 1, TRUE, TRUE)]
    /\ UNCHANGED <<cvars, pvars, fvars, registry, parser, io, raw, htmlsafe_tags, frames, version>>

\* a file of the directory is removed
RemoveTemplate ==
  \E template \in ParserNames :
    /\ template_dir[template].exists
    /\ template_dir' = [template_dir EXCEPT ![template].exists = FALSE]
    /\ UNCHANGED <<cvars, pvars, fvars, registry, parser, io, raw, htmlsafe_tags, frames, version>>

\* the permission to read a file of the directory is taken away
ProtectTemplate ==
  \E template \in ParserNames :
    /\ template_dir[template].exists /\ template_dir[template].readable
    /\ template_dir' = [template_dir EXCEPT ![template].readable = FALSE]
    /\ UNCHANGED <<cvars, pvars, fvars, registry, parser, io, raw, htmlsafe_tags, frames, version>>

NextParser ==
  \/ ParserGetItem
  \/ ParserParse
  \/ WriteTemplate
  \/ RemoveTemplate
  \/ ProtectTemplate

SpecParser == InitParser /\ [][NextParser]_vars

-----------------------------------------------------------------------------
(* The text of a template that has no {{ }} function: a string is the      *)
(* sequence of its characters; Template.TAG splits it into text and tags,  *)
(* TemplateTag.FromString takes a tag apart, TemplateTag.__str__ puts it   *)
(* together when the tag has no replacement.                               *)

\* \w and [\w-] among the characters of the model
Word == {"x", "f", "0", "1"}
Dashed == Word \cup {"-"}

RECURSIVE Run(_, _, _)
\* where the longest run of characters of class that starts at s[i] ends: the
\* index of the first character after it
Run(s, i, class) ==
  IF i <= Len(s) /\ s[i] \in class THEN Run(s, i + 1, class) ELSE i

Is(s, i, char) == i <= Len(s) /\ s[i] = char

\* (?:\([^()]*?\))? at s[i]: the index after the closing parenthesis, or i
Closure(s, i) ==
  IF Is(s, i, "(") /\ Is(s, Run(s, i + 1, {c \in Range(s) : c \notin {"(", ")"}}), ")")
    THEN Run(s, i + 1, {c \in Range(s) : c \notin {"(", ")"}}) + 1
    ELSE i

RECURSIVE Indices(_, _)
\* (?:(?::[\w-]+)+)? at s[i]: the index after the last index
Indices(s, i) ==
  IF Is(s, i, ":") /\ Run(s, i + 1, Dashed) > i + 1
    THEN Indices(s, Run(s, i + 1, Dashed))
    ELSE i

RECURSIVE FunctionsAt(_, _)
\* (?:(?:\|[\w-]+(?:\([^()]*?\))?)+)? at s[i]: the index after the last function
FunctionsAt(s, i) ==
  IF Is(s, i, "|") /\ Run(s, i + 1, Dashed) > i + 1
    THEN FunctionsAt(s, Closure(s, Run(s, i + 1, Dashed)))
    ELSE i

\* TAG at s[i]: the groups name, indices and functions of the match, end the
\* index after the closing bracket; end = 0 when TAG does not match there
TAG(s, i) ==
  IF Is(s, i, "[") /\ Run(s, i + 1, Word) > i + 1
       /\ Is(s, FunctionsAt(s, Indices(s, Run(s, i + 1, Word))), "]")
    THEN [name |-> SubSeq(s, i + 1, Run(s, i + 1, Word) - 1),
          indices |-> SubSeq(s, Run(s, i + 1, Word), Indices(s, Run(s, i + 1, Word)) - 1),
          functions |-> SubSeq(s, Indices(s, Run(s, i + 1, Word)),
                               FunctionsAt(s, Indices(s, Run(s, i + 1, Word))) - 1),
          end |-> FunctionsAt(s, Indices(s, Run(s, i + 1, Word))) + 1]
    ELSE [name |-> <<>>, indices |-> <<>>, functions |-> <<>>, end |-> 0]

RECURSIVE Split(_, _)
\* s.split(sep)
Split(s, sep) ==
  IF sep \notin Range(s) THEN <<s>>
  ELSE <<SubSeq(s, 1, Run(s, 1, Range(s) \ {sep}) - 1)>>
         \o Split(SubSeq(s, Run(s, 1, Range(s) \ {sep}) + 1, Len(s)), sep)

\* TemplateTag._GetIndices: raw_indices.lstrip(':').split(':')
_GetIndices(raw_indices) ==
  IF raw_indices = <<>> THEN <<>>
  ELSE Split(SubSeq(raw_indices, Run(raw_indices, 1, {":"}), Len(raw_indices)), ":")

RECURSIVE FUNC_FINDER(_, _)
\* FUNC_FINDER.findall(s) from s[i] on
FUNC_FINDER(s, i) ==
  IF i > Len(s) THEN <<>>
  ELSE IF Is(s, i, "|") /\ Run(s, i + 1, Dashed) > i + 1
    THEN <<SubSeq(s, i + 1, Closure(s, Run(s, i + 1, Dashed)) - 1)>>
           \o FUNC_FINDER(s, Closure(s, Run(s, i + 1, Dashed)))
    ELSE FUNC_FINDER(s, i + 1)

\* TemplateTag._GetFunctions
_GetFunctions(raw_functions) ==
  IF raw_functions = <<>> THEN <<>> ELSE FUNC_FINDER(raw_functions, 1)

\* TemplateTag.FromString of a string that TAG matches
FromString(tag) ==
  TemplateTag(TAG(tag, 1).name, _GetIndices(TAG(tag, 1).indices),
              _GetFunctions(TAG(tag, 1).functions))

RECURSIVE Prefixed(_, _, _)
\* ''.join(prefix + part for part in parts) from parts[i] on
Prefixed(prefix, parts, i) ==
  IF i > Len(parts) THEN <<>>
  ELSE <<prefix>> \o parts[i] \o Prefixed(prefix, parts, i + 1)

__str___NoPrefix(tag) ==
  <<"[">> \o tag.name \o Prefixed(":", tag.indices, 1) \o Prefixed(":", tag.functions, 1)
    \o <<"]">>

\* TemplateTag.__str__
__str__(tag) ==
  <<"[">> \o tag.name \o Prefixed(":", tag.indices, 1) \o Prefixed("|", tag.functions, 1)
    \o <<"]">>

RECURSIVE TagSplit(_, _, _)
\* Template.TagSplit: the nodes of template from the text that starts at
\* template[from], i the index where the search for the next tag is
TagSplit(template, from, i) ==
  IF i > Len(template)
    THEN IF from > Len(template) THEN <<>>
         ELSE <<TextC(SubSeq(template, from, Len(template)))>>
  ELSE IF TAG(template, i).end = 0 THEN TagSplit(template, from, i + 1)
  ELSE (IF from < i THEN <<TextC(SubSeq(template, from, i - 1))>> ELSE <<>>)
         \o <<TagC(FromString(SubSeq(template, i, TAG(template, i).end - 1)))>>
         \o TagSplit(template, TAG(template, i).end, TAG(template, i).end)

\* the pieces of strings that are put together to the strings of the model
Fragments ==
  { <<"[">>, <<"]">>, <<"x">>, <<":">>, <<"|">>, <<"(">>, <<")">>, <<"-">>,
    <<"[", "x">>, <<":", "0">>, <<"[", "x", ":", "0">>, <<"|", "f", "(", "1", ")">> }

RECURSIVE Concat(_)
Concat(parts) == IF parts = <<>> THEN <<>> ELSE parts[1] \o Concat(Tail(parts))

\* Template(raw) has returned, raw a string without {{ }}: FUNCTION.split
\* yields the string itself
InitText ==
  /\ raw \in {Concat(parts) : parts \in SeqsUpTo(Fragments, MaxParts)}
  /\ src = TagSplit(raw, 1, 1)
  /\ nodes = Compile(src).nodes
  /\ scopes = Compile(src).scopes
  /\ err = Compile(src).err
  /\ pc = "done"
  /\ last = "end"
  /\ scope_depth = Len(Template.scopes)
  /\ NoParse
  /\ NoFile
  /\ NoFunction
  /\ parser = <<>>
  /\ template_dir = <<>>
  /\ io = <<>>
  /\ htmlsafe_tags = <<>>
  /\ frames = <<>>
  /\ version = 0

\* Template.Parse() without replacements
ParseText ==
  /\ pc = "done"
  /\ Returns(TemplateParse(nodes, NoKwds), NoKwds)
  /\ UNCHANGED <<scopes, err, last, scope_depth, src, fvars, registry, dvars>>

SpecText == InitText /\ [][ParseText]_vars

-----------------------------------------------------------------------------
(* A Template whose parser was made with noparse: Parse renders, hashes    *)
(* the page and collects the parsed tags in the `tags` of what it returns. *)
(* A walk n is the record [nodes, err, tags].                              *)

RECURSIVE StrExpr(_, _, _)
\* ''.join(map(str, expr)) in TemplateConditional.__str__, for branch i of a
\* TemplateConditionalPresence: it takes what is left of the map iterator
StrExpr(n, ref, i) ==
  IF n.err # NoErr \/ n.nodes[ref].branches[i].pos >= Len(n.nodes[ref].branches[i].tags)
    THEN n
  ELSE IF FromStringFails(n.nodes[ref].branches[i].tags[n.nodes[ref].branches[i].pos + 1])
    THEN [n EXCEPT !.nodes[ref].branches[i].pos = @ + 1,
                   !.err = TemplateSyntaxError("Invalid Tag syntax", 0)]
  ELSE StrExpr([n EXCEPT !.nodes[ref].branches[i].pos = @ + 1], ref, i)

RECURSIVE StrNode(_, _)
RECURSIVE StrParts(_, _, _)
RECURSIVE StrBranches(_, _, _)

\* ''.join(map(str, parts)) from parts[i] on
StrParts(n, parts, i) ==
  IF n.err # NoErr \/ i > Len(parts) THEN n
  ELSE StrParts(StrNode(n, parts[i]), parts, i + 1)

\* TemplateConditional.__str__ from branch i on, the default last
StrBranches(n, ref, i) ==
  IF n.err # NoErr THEN n
  ELSE IF i > Len(n.nodes[ref].branches) THEN StrParts(n, n.nodes[ref].default, 1)
  ELSE StrBranches(StrParts(IF n.nodes[ref].kind = "TemplateConditionalPresence"
                               THEN StrExpr(n, ref, i) ELSE n,
                            n.nodes[ref].branches[i].body, 1),
                   ref, i + 1)

\* str(part) for the object at reference ref
StrNode(n, ref) ==
  CASE IsConditional(n.nodes[ref]) -> StrBranches(n, ref, 1)
    [] IsLoop(n.nodes[ref]) -> StrParts(n, n.nodes[ref].body, 1)
    [] OTHER -> n

\* htmlsafe.tags[str(tag)] = tag.Parse(**kwds), p what tag.Parse returned
SetTag(n, tag, p) ==
  IF n.err # NoErr THEN n
  ELSE IF p.err # NoErr THEN [n EXCEPT !.err = p.err]
  ELSE [n EXCEPT !.tags = Set(@, tag, p.piece)]

RECURSIVE SetTags(_, _, _, _)
\* lines 341-343 for the TemplateTags tags[i..] of an expression or a body
SetTags(n, tags, i, kwds) ==
  IF n.err # NoErr \/ i > Len(tags) THEN n
  ELSE SetTags(SetTag(n, tags[i], TagParse(tags[i], kwds)), tags, i + 1, kwds)

RECURSIVE TagsAmong(_, _, _)
\* the parts[i..] that are TemplateTags, line 342
TagsAmong(ns, parts, i) ==
  IF i > Len(parts) THEN <<>>
  ELSE (IF ns[parts[i]].kind = "TemplateTag" THEN <<ns[parts[i]].tag>> ELSE <<>>)
         \o TagsAmong(ns, parts, i + 1)

\* the TemplateTags that iterating the expression of a branch yields: those
\* the expression is written with, and for a TemplateConditionalPresence
\* what the map iterator has left
ExprTags(kind, branch) ==
  IF kind = "TemplateConditionalPresence"
    THEN SubSeq(branch.tags, branch.pos + 1, Len(branch.tags))
  ELSE IF branch.op \in {"and", "or"} THEN SubSeq(branch.tags, 1, 2)
  ELSE SubSeq(branch.tags, 1, 1)

RECURSIVE NoParseBranches(_, _, _, _)
\* lines 340-343: itertools.chain(*tag.branches) from branch i on yields the
\* expression and then the body of each branch, never the default
NoParseBranches(n, ref, i, kwds) ==
  IF n.err # NoErr \/ i > Len(n.nodes[ref].branches) THEN n
  ELSE NoParseBranches(
         SetTags(SetTags([n EXCEPT !.nodes[ref].branches[i].pos =
                                     IF n.nodes[ref].kind = "TemplateConditionalPresence"
                                       THEN Len(n.nodes[ref].branches[i].tags) ELSE @],
                         ExprTags(n.nodes[ref].kind, n.nodes[ref].branches[i]), 1, kwds),
                 TagsAmong(n.nodes, n.nodes[ref].branches[i].body, 1), 1, kwds),
         ref, i + 1, kwds)

RECURSIVE NoParseParts(_, _, _, _)
\* lines 338-345: `for tag in self` from parts[i] on
NoParseParts(n, parts, i, kwds) ==
  IF n.err # NoErr \/ i > Len(parts) THEN n
  ELSE NoParseParts(
         CASE IsConditional(n.nodes[parts[i]]) -> NoParseBranches(n, parts[i], 1, kwds)
           [] n.nodes[parts[i]].kind = "TemplateTag" ->
                SetTag(n, n.nodes[parts[i]].tag, TagParse(n.nodes[parts[i]].tag, kwds))
           [] OTHER -> n,
         parts, i + 1, kwds)

\* Template.Parse, lines 333-345, r what the render of line 326 returned:
\* HTMLsafestring(self) takes str(self), then the tags are collected
TemplateNoParse(r, kwds) ==
  IF r.err # NoErr THEN [nodes |-> r.nodes, err |-> r.err, tags |-> <<>>]
  ELSE NoParseParts(StrParts([nodes |-> r.nodes, err |-> NoErr, tags |-> <<>>],
                             r.nodes[1].body, 1),
                    r.nodes[1].body, 1, kwds)

NoParseSources ==
  { <<TagC(Tag("x")), TextC("tail")>>,
    <<IfC("tag", <<Tag("x")>>), TagC(Tag("y")), NoArgs("else"), TagC(Tag("a")),
      NoArgs("endif")>>,
    <<IfC("and", <<Tag("x"), Tag("y")>>), TextC("A"), ElifC("tag", <<Tag("y")>>),
      TagC(Tag("a")), NoArgs("endif")>>,
    <<IfC("tag", <<Tag("x")>>), IfC("tag", <<Tag("y")>>), TagC(Tag("a")), NoArgs("endif"),
      NoArgs("endif")>>,
    <<ForC(<<"a">>, Tag("x")), TagC(Tag("y")), NoArgs("endfor")>>,
    <<IfpresentC(<<Tag("x"), Tag("y")>>), TagC(Tag("a")), NoArgs("endif")>> }

NoParseReplacements ==
  {f \in UNION {[D -> {PyInt(0), PyInt(1), PyList(<<PyInt(1)>>)}] : D \in SUBSET Names} :
     \A name \in DOMAIN f \ {"x"} : f[name] \in {PyInt(0), PyInt(1)}}

\* Template(src, parser=p) has returned, p = Parser(noparse=True) with no
\* template or with one stored
InitNoParse ==
  /\ src \in NoParseSources
  /\ nodes = Compile(src).nodes
  /\ scopes = Compile(src).scopes
  /\ err = Compile(src).err
  /\ pc = "done"
  /\ last = "end"
  /\ scope_depth = Len(Template.scopes)
  /\ NoParse
  /\ NoFile
  /\ NoFunction
  /\ parser \in {<<>>, [a |-> Template]}
  /\ template_dir = <<>>
  /\ io = <<>>
  /\ raw = <<>>
  /\ htmlsafe_tags = <<>>
  /\ frames = <<>>
  /\ version = 0

\* Template.Parse returns or raises, n the walk of its lines 333-345
NoParseReturns(r, n, replacements) ==
  /\ nodes' = n.nodes
  /\ kwargs' = replacements
  /\ out' = IF n.err = NoErr THEN r.out ELSE <<>>
  /\ raised' = n.err
  /\ evals' = r.evals
  /\ found' = registry
  /\ pc' = "parsed"
  /\ htmlsafe_tags' = IF n.err = NoErr THEN n.tags ELSE <<>>

\* Template.Parse(**replacements): `self.parser and self.parser.noparse`
\* is false for a Parser, a dict, that holds no template
ParseNoParse ==
  \E replacements \in NoParseReplacements :
    /\ IF parser = <<>>
         THEN /\ Returns(TemplateParse(nodes, replacements), replacements)
              /\ htmlsafe_tags' = <<>>
         ELSE NoParseReturns(TemplateParse(nodes, replacements),
                             TemplateNoParse(TemplateParse(nodes, replacements), replacements),
                             replacements)
    /\ UNCHANGED <<scopes, err, last, scope_depth, src, fvars, registry,
                   parser, template_dir, io, raw, frames, version>>

SpecNoParse == InitNoParse /\ [][ParseNoParse]_vars

-----------------------------------------------------------------------------
(* Claims about compilation, checked under SpecCompile.                    *)

\* the directives of a source that open a scope, and those that close one
Openers == {"for", "if", "ifpresent", "ifnotpresent"}
Closers == {"endfor", "endif"}
Count(s, ds) == Cardinality({i \in 1..Len(s) : s[i].d \in ds})

ValidFor(c) == c.d = "for" /\ ~FromStringFails(c.tags[1])

\* C2: a for (with a valid tag), if, ifpresent or ifnotpresent pushes exactly
\* one frame, the new object; endfor pops the top frame exactly when it is a
\* loop and endif exactly when it is a conditional of either kind, and
\* otherwise (the Template on top included) raises a syntax error and leaves
\* the stack as it was; elif and else leave the stack as it was.
C2_Step ==
  LET c == src'[Len(src')]
      top == nodes[Top(Self)]
  IN Len(src') = Len(src) + 1 =>
       /\ (ValidFor(c) \/ c.d \in Openers \ {"for"}) =>
            /\ scopes' = Append(scopes, Len(nodes) + 1)
            /\ Len(nodes') = Len(nodes) + 1
            /\ err' = NoErr
       /\ c.d = "endfor" =>
            IF IsLoop(top)
              THEN scopes' = SubSeq(scopes, 1, Len(scopes) - 1) /\ err' = NoErr
              ELSE scopes' = scopes /\ err'.type = "TemplateSyntaxError"
       /\ c.d = "endif" =>
            IF IsConditional(top)
              THEN scopes' = SubSeq(scopes, 1, Len(scopes) - 1) /\ err' = NoErr
              ELSE scopes' = scopes /\ err'.type = "TemplateSyntaxError"
       /\ c.d \in {"elif", "else"} => scopes' = scopes

C2_ScopeTransitions == [][C2_Step]_vars

\* C2 witness: an endfor met a conditional on top of a loop and raised,
\* after an endif had popped a conditional
C2_Witness ==
  /\ pc = "raised"
  /\ last = "endfor"
  /\ Len(scopes) = 3
  /\ IsConditional(nodes[Top(Self)])
  /\ Count(src, {"endif"}) = 1

Conditionals(ns) == {i \in 1..Len(ns) : IsConditional(ns[i])}

\* C3: every conditional has at least one branch at every point of the
\* compilation; an elif or else on a conditional whose else clause is open
\* raises a syntax error and changes no object; an elif or else when the top
\* frame is no conditional raises a syntax error too; otherwise elif adds
\* one branch and else opens the else clause.
C3_Step ==
  LET c == src'[Len(src')]
      ref == Top(Self)
      top == nodes[ref]
  IN (Len(src') = Len(src) + 1 /\ c.d \in {"elif", "else"}) =>
       IF ~IsConditional(top) \/ top.hasdefault
         THEN err'.type = "TemplateSyntaxError" /\ nodes' = nodes
         ELSE /\ err' = NoErr
              /\ c.d = "elif" =>
                   /\ Len(nodes'[ref].branches) = Len(top.branches) + 1
                   /\ ~nodes'[ref].hasdefault
              /\ c.d = "else" =>
                   /\ nodes'[ref].branches = top.branches
                   /\ nodes'[ref].hasdefault

C3_Branches ==
  /\ [](\A i \in Conditionals(nodes) : Len(nodes[i].branches) >= 1)
  /\ [][C3_Step]_vars

\* C3 witness: an elif after the else of the same conditional raised
C3_Witness ==
  /\ pc = "raised"
  /\ last = "elif"
  /\ IsConditional(nodes[Top(Self)])
  /\ nodes[Top(Self)].hasdefault
  /\ err = TemplateSyntaxError("elif clause may not follow else", 0)


-----------------------------------------------------------------------------
(* Claims about rendering, checked under SpecRender.                       *)

\* every tag of the list resolves in the replacements
AllResolve(tags, replacements) ==
  \A i \in 1..Len(tags) : GetValue(tags[i], replacements).err = NoErr

\* C4 as stated: a tag whose name is missing or one of whose indices cannot
\* be projected is rendered as its own text, no exception is raised, and the
\* text after it is rendered.
C4_Original ==
  (pc = "parsed" /\ src \in TagSources /\ GetValue(src[1].tags[1], kwargs).err # NoErr) =>
     /\ raised = NoErr
     /\ out = <<TagPiece(src[1].tags[1]), TextPiece("tail")>>

\* the "expr" events of the trace, and whether one found its branch true
ExprEvents == {j \in 1..Len(evals) : evals[j].ev = "expr"}
Earlier(j) == {k \in ExprEvents : k < j /\ evals[k].ref = evals[j].ref}
Latest(S) == CHOOSE k \in S : \A m \in S : m <= k
WasTrue(j) == Truthy(evals[j].val)

\* C5: the branch expressions of a conditional are evaluated in the order of
\* declaration, each only after the one before it was found false, and none
\* after one was found true; the output is the body of the first true
\* branch, or the else body, or nothing.
C5_FirstTrueBranch ==
  pc = "parsed" =>
    /\ \A j \in ExprEvents :
         /\ evals[j].i > 1 =>
              /\ Earlier(j) # {}
              /\ evals[Latest(Earlier(j))].i = evals[j].i - 1
              /\ ~WasTrue(Latest(Earlier(j)))
         /\ (evals[j].i = 1 /\ Earlier(j) # {}) =>
              \/ WasTrue(Latest(Earlier(j)))
              \/ evals[Latest(Earlier(j))].i = Len(nodes[evals[j].ref].branches)
    /\ src \in IfSources =>
         LET ref == nodes[1].body[1]
             e1 == Expression(nodes[ref].branches[1], kwargs)
             e2 == Expression(nodes[ref].branches[2], kwargs)
             else == IF nodes[ref].hasdefault THEN <<TextPiece("C")>> ELSE <<>>
         IN CASE e1.err # NoErr -> raised = e1.err /\ Len(evals) = 1
              [] e1.err = NoErr /\ e1.truth ->
                   raised = NoErr /\ out = <<TextPiece("A"), TextPiece("tail")>> /\ Len(evals) = 1
              [] e1.err = NoErr /\ ~e1.truth /\ e2.err # NoErr -> raised = e2.err
              [] e1.err = NoErr /\ ~e1.truth /\ e2.err = NoErr /\ e2.truth ->
                   raised = NoErr /\ out = <<TextPiece("B"), TextPiece("tail")>>
              [] OTHER -> raised = NoErr /\ out = else \o <<TextPiece("tail")>>

\* C5 witness: the first branch was false and the second true, so that B was
\* rendered, and the else clause was not
C5_Witness ==
  /\ pc = "parsed"
  /\ src \in IfSources
  /\ out = <<TextPiece("B"), TextPiece("tail")>>
  /\ Len(evals) = 2
  /\ ~WasTrue(1)
  /\ WasTrue(2)
  /\ nodes[nodes[1].body[1]].hasdefault

\* C6 as stated: at every render of an ifpresent branch that raises nothing,
\* the branch is taken exactly when every listed tag resolves in the
\* replacements of that render.
C6_Original ==
  (pc = "parsed" /\ src \in PresenceSources /\ src[1].d = "ifpresent" /\ raised = NoErr) =>
     (out[1] = TextPiece("have") <=> AllResolve(src[1].tags, kwargs))

ItemEvents == {j \in 1..Len(evals) : evals[j].ev = "item" /\ evals[j].ref = nodes[1].body[1]}
\* the events between item event j and the next item event of that loop
During(j) ==
  {k \in 1..Len(evals) : k > j /\ \A m \in ItemEvents : m > j => k < m}
\* what the tag [name] renders to
Shows(name, replacements) ==
  IF name \in DOMAIN replacements
    THEN ValuePiece(HTMLsafestring(replacements[name]))
    ELSE TagPiece(Tag(name))

\* C9: in each iteration of a loop every alias holds what item i gives it
\* and every other name what the caller gave; the body is rendered with these
\* replacements; the part after the loop is rendered with the caller's
\* replacements, a name that an alias shadowed having its original value.
C9_LoopLocal ==
  (pc = "parsed" /\ src \in LoopSources) =>
    LET loop == nodes[nodes[1].body[1]]
        aliases == loop.aliases
        names == {aliases[i] : i \in 1..Len(aliases)}
    IN /\ \A j \in ItemEvents :
            LET e == evals[j] IN
            /\ DOMAIN e.kwds = DOMAIN kwargs \cup names
            /\ \A name \in DOMAIN kwargs \ names : e.kwds[name] = kwargs[name]
            /\ Len(aliases) = 1 => e.kwds[aliases[1]] = e.val
            /\ Len(aliases) > 1 =>
                 \A i \in 1..Len(aliases) : e.kwds[aliases[i]] = IterOf(e.val)[i]
            /\ e.val = IterOf(kwargs["x"])[e.i]
            /\ \A k \in During(j) :
                 (evals[k].ev = "tag" /\ evals[k].ref \in Range(loop.body)) =>
                    evals[k].kwds = e.kwds
       /\ raised = NoErr =>
            /\ evals[Len(evals)].ev = "tag"
            /\ evals[Len(evals)].kwds = kwargs
            /\ out[Len(out)] = Shows("a", kwargs)

\* C9 witness: a loop over two items whose alias a shadowed the caller's a;
\* the tag [a] after the loop shows the caller's value
C9_Witness ==
  /\ pc = "parsed"
  /\ src = LoopSource(<<"a">>, <<TagC(Tag("a")), TextC(";")>>)
  /\ raised = NoErr
  /\ "a" \in DOMAIN kwargs
  /\ Cardinality(ItemEvents) = 2
  /\ out[1] # out[Len(out)]
  /\ out[Len(out)] = ValuePiece(HTMLsafestring(kwargs["a"]))

\* C10: the body is rendered once per item, in order, and the results are
\* joined; one alias is bound to the item itself; two aliases are bound to
\* the two elements of the item, and an item without a length or of another
\* length makes Parse raise TemplateValueError (a ValueError), with no output.
C10_LoopItems ==
  (pc = "parsed" /\ "x" \in DOMAIN kwargs /\ kwargs["x"].kind = "list") =>
    LET items == kwargs["x"].items
        n == Len(items)
    IN /\ src = LoopSource(<<"a">>, <<TagC(Tag("a")), TextC(";")>>) =>
            /\ raised = NoErr
            /\ Len(out) = 2 * n + 1
            /\ \A j \in 1..n :
                 /\ out[2 * j - 1] = ValuePiece(HTMLsafestring(items[j]))
                 /\ out[2 * j] = TextPiece(";")
       /\ src = LoopSource(<<"a", "b">>, <<TagC(Tag("a")), TagC(Tag("b")), TextC(";")>>) =>
            IF \A j \in 1..n : HasLen(items[j]) /\ LenOf(items[j]) = 2
              THEN /\ raised = NoErr
                   /\ Len(out) = 3 * n + 1
                   /\ \A j \in 1..n :
                        /\ out[3 * j - 2] = ValuePiece(HTMLsafestring(items[j].items[1]))
                        /\ out[3 * j - 1] = ValuePiece(HTMLsafestring(items[j].items[2]))
                        /\ out[3 * j] = TextPiece(";")
              ELSE raised.type = "TemplateValueError" /\ out = <<>>

\* C10 witness: the second of two items cannot be unpacked into two aliases
C10_Witness ==
  /\ pc = "parsed"
  /\ src = LoopSource(<<"a", "b">>, <<TagC(Tag("a")), TagC(Tag("b")), TextC(";")>>)
  /\ "x" \in DOMAIN kwargs
  /\ kwargs["x"] = PyList(<<PyList(<<PyInt(0), PyInt(1)>>), PyInt(1)>>)
  /\ raised.type = "TemplateValueError"
  /\ out = <<>>


\* C14: `[x] and [y:0]` with a falsy x is false, and `[x] or [y:0]` with a
\* truthy x is true, without an exception, whether [y:0] resolves or not:
\* the right operand is not resolved.
C14_Lazy ==
  (pc = "parsed" /\ src \in LazySources /\ "x" \in DOMAIN kwargs) =>
     /\ (src[1].op = "and" /\ ~Truthy(kwargs["x"])) =>
          (raised = NoErr /\ out = <<TextPiece("no"), TextPiece("tail")>>)
     /\ (src[1].op = "or" /\ Truthy(kwargs["x"])) =>
          (raised = NoErr /\ out = <<TextPiece("yes"), TextPiece("tail")>>)

\* C14 happens: x is falsy, y is an int, of which [y:0] raises when it is
\* resolved, and the render returned `no`
C14_Witness ==
  /\ pc = "parsed"
  /\ src \in LazySources
  /\ src[1].op = "and"
  /\ "x" \in DOMAIN kwargs /\ ~Truthy(kwargs["x"])
  /\ "y" \in DOMAIN kwargs
  /\ GetValue(src[1].tags[2], kwargs).err # NoErr
  /\ raised = NoErr
  /\ out = <<TextPiece("no"), TextPiece("tail")>>

-----------------------------------------------------------------------------
(* Claims about a cached FileTemplate, checked under SpecFile.             *)

\* C8 as stated: a step taken while the file's modification time has not
\* advanced past the cached one leaves the compiled nodes as they were, and
\* a Parse with the replacements of the Parse before it, the file being
\* untouched in between, returns what that Parse returned.
C8_Step ==
  file.mtime <= file_mtime =>
    /\ nodes' = nodes
    /\ (pc = "parsed" /\ kwargs' = kwargs /\ file' = file) => (out' = out /\ raised' = raised)

C8_Original == [][C8_Step]_vars


-----------------------------------------------------------------------------
(* Claims about the functions of a tag, checked under SpecPipeline.        *)

\* a function as it is written in a tag: its name, and its argument list
WrittenName(f) ==
  CASE f = "limit(1)" -> "limit"
    [] f = "my-fn(1)" -> "my-fn"
    [] f = "nofn(1)" -> "nofn"
    [] OTHER -> f
HasArguments(f) == f \in {"limit(1)", "my-fn(1)", "nofn(1)"}

\* f(v) for the function written f: fn(args)(v) when f has an argument list
AsWritten(f, v) ==
  IF HasArguments(f) THEN CallClosure(WrittenName(f), <<PyInt(1)>>, v) ELSE CallFunction(f, v)

\* what Template.Parse returns or raises for the source and the replacements
Rendered(source, replacements) ==
  LET r == TemplateParse(Compile(source).nodes, replacements)
  IN [out |-> IF r.err = NoErr THEN r.out ELSE <<>>, raised |-> r.err]

\* `[x|f|g]` was rendered with x = v, f and g are registered and f(v) is
\* defined: the render gave what `[y|g]` rendered with y = f(v) gives
Pipelined(fs) ==
  (src \in {PipelineTag(<<f, g>>) : f, g \in fs} /\ "x" \in DOMAIN kwargs) =>
     LET f == src[1].tags[1].functions[1]
         g == src[1].tags[1].functions[2]
         y == AsWritten(f, kwargs["x"])
     IN (Lookup(WrittenName(f)) # "" /\ Lookup(WrittenName(g)) # "" /\ y.err = NoErr) =>
          /\ out = Rendered(PipelineTag(<<g>>), [name \in {"x"} |-> y.val]).out
          /\ raised = Rendered(PipelineTag(<<g>>), [name \in {"x"} |-> y.val]).raised

\* C11 as stated: for registered f and g and every value v for which f(v)
\* is defined, `[x|f|g]` rendered with x = v gives what `[y|g]` rendered with
\* y = f(v) gives, f(v) being fn(args)(v) when f is written with arguments.
C11_Original == (pc = "parsed" /\ found = registry) => Pipelined(Written)

\* the same for the functions whose name is of word characters only
C11_WordNames == (pc = "parsed" /\ found = registry) => Pipelined(Written \ {"my-fn(1)"})

\* C12: a tag without functions whose value is no safe string is rendered
\* as default(value), the HTML-safe string of the value; a safe string
\* without functions is rendered as it is; and a tag with functions is
\* rendered as what its functions return, `[x|raw]` as the value itself.
C12_DefaultFunction ==
  (/\ pc = "parsed" /\ found = registry
   /\ src \in {PipelineTag(fs) : fs \in SeqsUpTo(Written, MaxFunctions)}
   /\ "x" \in DOMAIN kwargs) =>
     LET fs == src[1].tags[1].functions
         v == kwargs["x"]
     IN /\ (fs = <<>> /\ ~IsBasesafestring(v)) =>
             (raised = NoErr /\ out = <<ValuePiece(HTMLsafestring(v)), TextPiece("tail")>>)
        /\ (fs = <<>> /\ IsBasesafestring(v)) =>
             (raised = NoErr /\ out = <<ValuePiece(v), TextPiece("tail")>>)
        /\ (fs # <<>> /\ raised = NoErr) =>
             out = <<ValuePiece(ApplyFunctions(Ok(v), fs, 1).val), TextPiece("tail")>>
        /\ fs = <<"raw">> => (raised = NoErr /\ out = <<ValuePiece(v), TextPiece("tail")>>)

\* C12 happens: a tag without functions was rendered with a str, which
\* default made an HTML-safe string
C12_Witness ==
  /\ pc = "parsed"
  /\ src = PipelineTag(<<>>)
  /\ kwargs = [name \in {"x"} |-> PyStr("s")]
  /\ out = <<ValuePiece(HTMLsafestring(PyStr("s"))), TextPiece("tail")>>

\* C13 as stated: when the one function of a tag, or of the tag a loop
\* iterates, has a name that is in no registry, with or without an argument
\* list, and the tag resolves, the render raises TemplateNameError.
C13_Original ==
  (/\ pc = "parsed" /\ found = registry
   /\ src \in {PipelineTag(<<f>>) : f \in Written} \cup {PipelineLoop(<<f>>) : f \in Written}
   /\ "x" \in DOMAIN kwargs
   /\ Lookup(WrittenName(src[1].tags[1].functions[1])) = "") =>
     raised.type = "TemplateNameError"

\* the same for the Tag nodes alone
C13_TagNodes ==
  (/\ pc = "parsed" /\ found = registry
   /\ src \in {PipelineTag(<<f>>) : f \in Written}
   /\ "x" \in DOMAIN kwargs
   /\ Lookup(WrittenName(src[1].tags[1].functions[1])) = "") =>
     raised.type = "TemplateNameError"

-----------------------------------------------------------------------------
(* Claims about the cache of a Parser, checked under SpecParser.           *)

\* the step is a call on the Parser, which io' describes: writing and
\* removing a file leave all of these as they are
ParserCalled == io' # io \/ parser' # parser \/ pvars' # pvars

\* the template stored under name is the compilation of the file as it is
\* before the step, which was read once
LoadedFrom(name, disk) ==
  /\ name \in DOMAIN parser'
  /\ parser'[name].src = disk.content
  /\ parser'[name].nodes = Compile(disk.content).nodes
  /\ parser'[name].file_mtime = disk.mtime
  /\ Len(io'.done) >= 3
  /\ SubSeq(io'.done, 1, 3) = <<"getmtime", "open", "read">>
  /\ \A other \in DOMAIN parser' \ {name} :
       other \in DOMAIN parser /\ parser'[other] = parser[other]

\* C15: the first __getitem__ or Parse of a name that is not stored reads and
\* compiles the file of that name and stores the template under the name; a
\* __getitem__ of a stored name returns the stored template and neither reads
\* nor compiles, whatever happened to the file; when the file of the first
\* load is missing or unreadable TemplateReadError is raised and nothing is
\* stored
C15_Cache ==
  [][\A name \in ParserNames :
       (ParserCalled /\ io'.template = name /\ io'.call \in {"__getitem__", "Parse"}) =>
         IF name \in DOMAIN parser
           THEN io'.call = "__getitem__" =>
                  (parser' = parser /\ io'.done = <<>> /\ raised' = NoErr)
           ELSE IF ~template_dir[name].exists \/ ~template_dir[name].readable
             THEN raised'.type = "TemplateReadError" /\ parser' = parser
             ELSE Compile(template_dir[name].content).err = NoErr =>
                    LoadedFrom(name, template_dir[name])]_vars

\* C15 witness: a template is stored, its file was written since, and the last
\* call was a __getitem__ of it, which touched no file; the file of another
\* name is missing and nothing is stored for it
C15_Witness ==
  /\ io.call = "__getitem__"
  /\ io.template \in DOMAIN parser
  /\ io.done = <<>>
  /\ template_dir[io.template].exists
  /\ template_dir[io.template].mtime > parser[io.template].file_mtime
  /\ template_dir[io.template].content # parser[io.template].src
  /\ \E name \in ParserNames \ DOMAIN parser : ~template_dir[name].exists

-----------------------------------------------------------------------------
(* Claims about the reload of a FileTemplate, checked under SpecFile.  A   *)
(* step that leaves the file as it is and changes anything is a Parse.     *)

\* the file is there and newer than the compiled template
Modified == file.exists /\ file.mtime > file_mtime

\* the Parse of the step rendered the parts ns with the replacements it was
\* given
RenderOf(ns) ==
  /\ nodes' = TemplateParse(ns, kwargs').nodes
  /\ raised' = TemplateParse(ns, kwargs').err
  /\ raised' = NoErr => out' = TemplateParse(ns, kwargs').out

\* C16: a Parse that finds the file newer than the compiled template, readable
\* and without syntax error renders the compilation of what the file holds and
\* keeps the file's modification time; a Parse that finds the file as old or
\* older only asks for the modification time and renders the parts it had,
\* the remembered modification time and source staying as they were
C16_Reload ==
  [][file' = file =>
       /\ (Modified /\ file.readable /\ Compile(file.content).err = NoErr) =>
            /\ io'.done = <<"getmtime", "open", "read">>
            /\ src' = file.content
            /\ scopes' = Compile(file.content).scopes
            /\ file_mtime' = file.mtime
            /\ RenderOf(Compile(file.content).nodes)
       /\ (file.exists /\ file.mtime <= file_mtime) =>
            /\ io'.done = <<"getmtime">>
            /\ src' = src
            /\ scopes' = scopes
            /\ file_mtime' = file_mtime
            /\ RenderOf(nodes)]_vars

\* C16 witness: the last Parse found an older file of another content and did
\* not read it
C16_Witness ==
  /\ io.call = "Parse"
  /\ io.done = <<"getmtime">>
  /\ file.exists
  /\ file.mtime < file_mtime
  /\ file.content # src
  /\ raised = NoErr
  /\ out # <<>>

\* C17: a Parse that cannot ask for the modification time of the file, or
\* finds the file newer and cannot read it, raises nothing for that and
\* renders the parts it had; a Parse that finds the file newer, reads it and
\* finds a syntax error in it raises that TemplateSyntaxError and renders
\* nothing
C17_Swallowed ==
  [][file' = file =>
       /\ (~file.exists \/ (Modified /\ ~file.readable)) =>
            /\ src' = src
            /\ scopes' = scopes
            /\ file_mtime' = file_mtime
            /\ RenderOf(nodes)
       /\ (Modified /\ file.readable /\ Compile(file.content).err # NoErr) =>
            /\ raised' = Compile(file.content).err
            /\ raised'.type = "TemplateSyntaxError"
            /\ out' = <<>>]_vars

\* C17 witness: the last Parse found the file newer, could not read it and
\* returned the render of the template it had
C17_Witness ==
  /\ io.call = "Parse"
  /\ io.done = <<"getmtime", "open">>
  /\ file.exists /\ ~file.readable
  /\ file.mtime > file_mtime
  /\ file.content # src
  /\ raised = NoErr
  /\ out # <<>>

-----------------------------------------------------------------------------
(* Claims about the value of a tag, checked under SpecRender.              *)

\* the lookups on a value that succeed
HasIndex(v, n) ==
  \/ v.kind \in {"list", "str"} /\ n < LenOf(v)
  \/ v.kind = "dict" /\ HasKey(v.items, PyInt(n))
HasStrKey(v, key) == v.kind = "dict" /\ HasKey(v.items, PyStr(key))
HasAttribute(v, name) == v.kind = "object" /\ HasKey(v.items, PyStr(name))

NoLookup == Fail(Error("TemplateKeyError", "Item has no index, key or attribute", 0))

\* one index as C18 states it: the first lookup that succeeds, else
\* TemplateKeyError
Step(v, index) ==
  IF IsDigit(index)
    THEN IF HasIndex(v, IntOf[index]) THEN GetItem(v, PyInt(IntOf[index]))
         ELSE IF HasStrKey(v, index) THEN GetItem(v, PyStr(index))
         ELSE NoLookup
    ELSE IF HasStrKey(v, index) THEN GetItem(v, PyStr(index))
         ELSE IF HasAttribute(v, index) THEN GetAttr(v, index)
         ELSE NoLookup

RECURSIVE Steps(_, _, _)
Steps(r, indices, i) ==
  IF r.err # NoErr \/ i > Len(indices) THEN r
  ELSE Steps(Step(r.val, indices[i]), indices, i + 1)

Resolved(tag, kwds) ==
  IF tag.name \notin DOMAIN kwds
    THEN Fail(Error("TemplateNameError", "No replacement with name", 0))
    ELSE Steps(Ok(kwds[tag.name]), tag.indices, 1)

\* C18 as stated: the value of a rendered tag is found by the name, missing
\* giving TemplateNameError, then by the indices from left to right, a digit
\* index as int index and then as str key, another index as key and then as
\* attribute; a step none of whose lookups succeeds gives TemplateKeyError
\* for every kind of value
C18_Original ==
  (pc = "parsed" /\ src \in TagSources) =>
     GetValue(src[1].tags[1], kwargs) = Resolved(src[1].tags[1], kwargs)

\* C18 where GetValue raises no TypeError, which is where no digit index
\* meets a value that cannot be subscripted
C18_Subscriptable ==
  (pc = "parsed" /\ src \in TagSources
     /\ GetValue(src[1].tags[1], kwargs).err.type # "TypeError") =>
     GetValue(src[1].tags[1], kwargs) = Resolved(src[1].tags[1], kwargs)

-----------------------------------------------------------------------------
(* Claims about the text of a template, checked under SpecText.            *)

RECURSIVE Joined(_, _)
\* ''.join of the pieces from pieces[i] on, as characters: a text as it is, an
\* unreplaced tag as its __str__
Joined(pieces, i) ==
  IF i > Len(pieces) THEN <<>>
  ELSE (IF pieces[i].p = "text" THEN pieces[i].text ELSE __str__(pieces[i].tag))
         \o Joined(pieces, i + 1)

\* C19: a string without {{ }} function, made a Template and parsed without
\* replacements, is returned character for character: the text as it is, each
\* tag with its indices, its functions and their arguments as it was written
C19_RoundTrip ==
  pc = "parsed" =>
     /\ raised = NoErr
     /\ \A i \in 1..Len(out) : out[i].p \in {"text", "tag"}
     /\ Joined(out, 1) = raw

\* C19 witness: a tag with an index and a function with an argument was
\* rendered as its own text, among other text
C19_Witness ==
  /\ pc = "parsed"
  /\ Len(out) > 1
  /\ \E i \in 1..Len(out) :
       /\ out[i].p = "tag"
       /\ out[i].tag.indices # <<>>
       /\ \E j \in 1..Len(out[i].tag.functions) : "(" \in Range(out[i].tag.functions[j])

-----------------------------------------------------------------------------
(* Claims about the tags collected with noparse, checked under             *)
(* SpecNoParse.                                                            *)

\* the TemplateTag parts of the template, at any depth
TagNodes == {ref \in 1..Len(nodes) : nodes[ref].kind = "TemplateTag"}

\* the parts of the Template itself, and those of the branches of the
\* conditionals among them
TopLevel == Range(nodes[1].body)
InBranch ==
  UNION {UNION {Range(nodes[ref].branches[i].body) : i \in 1..Len(nodes[ref].branches)} :
           ref \in {c \in TopLevel : IsConditional(nodes[c])}}

\* Parse has returned from a template whose parser has noparse and holds a
\* template
NoParsed == pc = "parsed" /\ parser # <<>> /\ raised = NoErr

\* C20 as stated: with noparse the tags of what Parse returns have an entry
\* for every TemplateTag part of the template, whether it is a part of the
\* template itself, of a branch or of the else clause of a conditional, of a
\* conditional inside a conditional, or of a loop
C20_Original ==
  NoParsed => \A ref \in TagNodes : nodes[ref].tag \in DOMAIN htmlsafe_tags

\* C20 for the TemplateTag parts of the template itself and of the branches
\* of its conditionals: each has its entry, which is what the tag parses to
C20_Visited ==
  NoParsed =>
    \A ref \in TagNodes \cap (TopLevel \cup InBranch) :
      /\ nodes[ref].tag \in DOMAIN htmlsafe_tags
      /\ htmlsafe_tags[nodes[ref].tag] = TagParse(nodes[ref].tag, kwargs).piece

(***************************************************************************)
(* Directives as they are written: the first word of a {{ }} in several    *)
(* capitalisations, words that name no construct, and no word at all.      *)
(***************************************************************************)

MaxDirectives == 3

\* the first words written in a {{ }}
WrittenWords ==
  {"if", "IF", "If", "endif", "ENDIF", "else", "Else", "xsrf", "XSRF", "inline",
   "foo", "Foo", "if_", ""}

\* {{ word .. }} with the arguments of the directive the word is taken for
WrittenChunks ==
  {Chunk(word, "tag", <<TagX>>, <<>>, "") : word \in {"if", "IF", "If", "if_"}}
    \cup {NoArgs(word) : word \in {"endif", "ENDIF", "else", "Else", "foo", "Foo", ""}}
    \cup {Chunk(word, "", tags, <<>>, "") : word \in {"xsrf", "XSRF"},
                                            tags \in {<<>>, <<TagX>>}}
    \cup {Chunk("inline", "", <<>>, <<>>, "a")}

\* AddString meets a {{ .. }}
Directive ==
  /\ Len(src) < MaxDirectives
  /\ \E c \in WrittenChunks : Becomes(_ExtendFunction(Self, c), c)

NextDirective == Directive

SpecDirective == InitCompile /\ [][NextDirective]_vars

\* the words whose title() names a _TemplateConstruct method
Titled ==
  {word \in WrittenWords \ {""} :
     \E method \in Directives : Title(word) = Title(method)}

\* C21 as stated: the ten names are recognised, and a {{ }} whose first word is
\* any other string (another capitalisation, no word) fails with a syntax
\* error and adds no node.
C21_Original ==
  [][src' # src =>
       IF last' \in Directives
         THEN err'.msg # "Unknown template function"
         ELSE err'.type = "TemplateSyntaxError" /\ nodes' = nodes]_vars

\* C21, what holds: the recognised first words are those whose title() is the
\* title of one of the ten names, in any capitalisation; any other word fails
\* with the syntax error of an unknown function and adds no node; no word at
\* all fails with IndexError and adds no node.
C21_Titled ==
  [][src' # src =>
       CASE last' = "" ->
              err'.type = "IndexError" /\ nodes' = nodes /\ scopes' = scopes
         [] last' \in Titled -> err'.msg # "Unknown template function"
         [] OTHER ->
              /\ err' = TemplateSyntaxError("Unknown template function", 0)
              /\ nodes' = nodes
              /\ scopes' = scopes]_vars

\* C21 witness: {{ IF [x] }}{{ Else }}{{ ENDIF }} compiled without error to
\* a conditional
C21_Witness ==
  /\ Len(src) = 3
  /\ src[1].d = "IF" /\ src[2].d = "Else" /\ src[3].d = "ENDIF"
  /\ err = NoErr
  /\ scopes = <<1>>
  /\ Len(nodes) = 2
  /\ nodes[2].kind = "TemplateConditional"
  /\ nodes[2].hasdefault

-----------------------------------------------------------------------------
(* Claims about the registry of functions, checked under SpecPipeline.     *)

\* the function the registry r holds under the name: the registered one,
\* else the one of the module, else none
Bound(r, name) ==
  IF name \in DOMAIN r THEN r[name] ELSE IF name \in TAG_FUNCTIONS THEN name ELSE ""

\* C22: a template compiled before any registration is rendered with the
\* functions that are registered when it is rendered: `[x|name]` gives
\* f(x) for the f that the registry held under the name at that Parse (the
\* one registered last, or TemplateNameError when there was none), and what a Parse returned is not changed by the
\* registrations after it.
C22_LateBound ==
  (/\ pc = "parsed"
   /\ src \in {PipelineTag(<<name>>) : name \in Registered}
   /\ "x" \in DOMAIN kwargs) =>
     LET f == Bound(found, src[1].tags[1].functions[1])
         y == Call(f, kwargs["x"])
     IN IF f = "" THEN raised.type = "TemplateNameError" /\ out = <<>>
        ELSE IF y.err # NoErr THEN raised.type = "TemplateTypeError" /\ out = <<>>
        ELSE raised = NoErr /\ out = <<ValuePiece(y.val), TextPiece("tail")>>

\* C22 happens: `[x|limit]`, compiled when nothing was registered, was
\* rendered after wrap was registered as limit and gave [x]; then limit was
\* registered in its place, and the output is still that of wrap
C22_Witness ==
  /\ pc = "parsed"
  /\ src = PipelineTag(<<"limit">>)
  /\ kwargs = [name \in {"x"} |-> PyStr("s")]
  /\ found = [name \in {"limit"} |-> "wrap"]
  /\ registry = [name \in {"limit"} |-> "limit"]
  /\ out = <<ValuePiece(PyList(<<PyStr("s")>>)), TextPiece("tail")>>

-----------------------------------------------------------------------------
(* Claims about tags that do not resolve, checked under SpecRender.        *)

\* eval() of the expression of the {{ if }} or {{ elif }} chunk c with the
\* replacements of the last Parse
ExprOf(c) == Eval(GetValue(c.tags[1], kwargs), c, kwargs)

\* a tag that eval() reached in the expression of the first {{ if }}, or of
\* the {{ elif }} after a false {{ if }}, did not resolve
ExprUnresolved ==
  /\ src \in IfSources \cup LazySources
  /\ \/ ExprOf(src[1]).err # NoErr
     \/ /\ src \in IfSources
        /\ ExprOf(src[1]).err = NoErr
        /\ ~Truthy(ExprOf(src[1]).val)
        /\ ExprOf(src[3]).err # NoErr

\* C23 as stated: when a tag that is evaluated in an if or elif expression
\* does not resolve, its name missing or an index not projectable, the render
\* raises TemplateNameError or TemplateKeyError and returns no output.
C23_Original ==
  (pc = "parsed" /\ ExprUnresolved) =>
     (raised.type \in {"TemplateNameError", "TemplateKeyError"} /\ out = <<>>)

\* what holds: the render raises and returns no output; the exception is
\* TemplateNameError for a missing name, TemplateKeyError for an index that
\* is no index, key or attribute of a value that can be subscripted, and
\* TypeError for a digit index of a value that cannot be subscripted
C23_Raises ==
  (pc = "parsed" /\ ExprUnresolved) =>
     (raised.type \in {"TemplateNameError", "TemplateKeyError", "TypeError"} /\ out = <<>>)

\* C23: {{ if [x] and [y:0] }} was rendered with a truthy x and an int y
C23_TypeError ==
  /\ pc = "parsed"
  /\ src \in LazySources
  /\ src[1].op = "and"
  /\ "x" \in DOMAIN kwargs /\ Truthy(kwargs["x"])
  /\ "y" \in DOMAIN kwargs /\ kwargs["y"].kind = "int"
  /\ raised.type = "TypeError"
  /\ out = <<>>

\* the tag that the loop at the start of the source iterates
LoopTag == src[1].tags[1]

\* C24 as stated: a loop whose tag does not resolve, its name missing or an
\* index not projectable, iterates over nothing: the render raises no error
\* and the loop adds nothing to the output.
C24_Original ==
  (/\ pc = "parsed"
   /\ src \in LoopSources \cup IndexedLoopSources
   /\ GetValue(LoopTag, kwargs).err # NoErr) =>
     /\ raised = NoErr
     /\ src \in IndexedLoopSources => out = <<TextPiece("tail")>>

\* what holds: the loop is empty when GetValue raises TemplateKeyError, for
\* an index that is no index, key or attribute of the value; a missing name
\* ends the render with TemplateNameError, and a digit index of a value that
\* cannot be subscripted ends it with TypeError
C24_KeyError ==
  (/\ pc = "parsed"
   /\ src \in LoopSources \cup IndexedLoopSources
   /\ GetValue(LoopTag, kwargs).err # NoErr) =>
     IF GetValue(LoopTag, kwargs).err.type = "TemplateKeyError"
       THEN raised = NoErr /\ out = <<TextPiece("tail")>>
       ELSE /\ raised = GetValue(LoopTag, kwargs).err
            /\ raised.type \in {"TemplateNameError", "TypeError"}
            /\ out = <<>>

\* C24: {{ for a in [x:k] }} was rendered with x a list, which has no k, and
\* the loop was empty
C24_EmptyLoop ==
  /\ pc = "parsed"
  /\ src = IndexedLoop("k")
  /\ "x" \in DOMAIN kwargs /\ kwargs["x"].kind = "list"
  /\ raised = NoErr
  /\ out = <<TextPiece("tail")>>

\* the "tag" events of the trace: the tags that were rendered, with the
\* replacements each was rendered with
TagEvents == {j \in 1..Len(evals) : evals[j].ev = "tag"}

\* C26 as stated: the body of a conditional of any kind is rendered with
\* exactly the replacements the conditional was rendered with, so a tag in
\* the body shows what the same tag shows after the conditional.
C26_Original ==
  (pc = "parsed" /\ src \in BodySources /\ raised = NoErr) =>
     /\ \A j \in TagEvents : evals[j].kwds = kwargs
     /\ Len(out) = 2
     /\ out[1] = out[2]

\* what holds: the body of an if is rendered with the replacements of the
\* conditional; the body of an ifpresent or ifnotpresent, its else clause
\* included, is rendered with these and the name checking_presence, which is
\* True: [checking_presence] in the body shows True, and after the
\* conditional it shows itself
C26_CheckingPresence ==
  (pc = "parsed" /\ src \in BodySources /\ raised = NoErr) =>
     /\ Len(out) = 2
     /\ Cardinality(TagEvents) = 2
     /\ out[2] = TagPiece(Tag("checking_presence"))
     /\ \A j \in TagEvents :
          evals[j].kwds =
            IF src[1].d = "if" \/ j = Len(evals) THEN kwargs
            ELSE Set(kwargs, "checking_presence", PyBool(TRUE))
     /\ out[1] = IF src[1].d = "if" THEN out[2] ELSE ValuePiece(HTMLsafestring(PyBool(TRUE)))

\* C26: the else clause of {{ ifpresent [x] }} was rendered without x, and
\* [checking_presence] in it showed True
C26_Else ==
  /\ pc = "parsed"
  /\ src = BodySource(IfpresentC(<<Tag("x")>>))
  /\ "x" \notin DOMAIN kwargs
  /\ raised = NoErr
  /\ out = <<ValuePiece(HTMLsafestring(PyBool(TRUE))), TagPiece(Tag("checking_presence"))>>

-----------------------------------------------------------------------------
(* The load of a template by parser[NAME], call by call: each call of      *)
(* FileTemplate.__init__ in progress has a frame, and the thread takes one *)
(* chunk of the innermost at a step.                                       *)

LoadNames == {"a", "b"}

\* what a file may hold: text, inlines of a, of b and of c, which is no file,
\* and a template that leaves a scope open
LoadSources ==
  { <<TextC("t")>>,
    <<TextC("t"), InlineC("a")>>,
    <<InlineC("b"), TextC("t")>>,
    <<InlineC("b"), InlineC("b")>>,
    <<InlineC("c")>>,
    <<IfC("tag", <<Tag("x")>>), InlineC("b")>> }

\* a call of FileTemplate.__init__: the name, what it read from the file, the
\* chunk AddString is at, and the Template so far
Frame(template, disk, index, t) ==
  [template |-> template, file_mtime |-> disk.mtime, raw_template |-> disk.content,
   index |-> index, t |-> t]

InitLoad ==
  /\ src = <<>>
  /\ nodes = Template.nodes
  /\ scopes = Template.scopes
  /\ err = NoErr
  /\ pc = "done"
  /\ last = "end"
  /\ scope_depth = Len(Template.scopes)
  /\ NoParse
  /\ NoFile
  /\ NoFunction
  /\ parser = <<>>
  /\ template_dir \in [LoadNames ->
                         {File(<<>>, 0, FALSE, FALSE)}
                           \cup {File(content, 1, TRUE, TRUE) : content \in LoadSources}]
  /\ io = Called("__init__", "", <<>>)
  /\ raw = <<>>
  /\ htmlsafe_tags = <<>>
  /\ frames = <<>>
  /\ version = 0

\* Parser.AddTemplate(template) calls FileTemplate.__init__: the call is one
\* too deep, or the file cannot be read, or AddString begins
Open(template) ==
  IF Len(frames) >= RecursionLimit
    THEN frames' = frames /\ err' = Exception("RecursionError")
  ELSE IF ~CanRead(template_dir, template)
    THEN frames' = frames /\ err' = Exception("TemplateReadError")
  ELSE /\ frames' = Append(frames, Frame(template, template_dir[template], 1, Template))
       /\ err' = NoErr

\* the innermost call, and the chunk it is at
Innermost == frames[Len(frames)]
AtChunk == Innermost.raw_template[Innermost.index]
Running == pc = "loading" /\ err = NoErr /\ frames # <<>>
AtInline == Innermost.index <= Len(Innermost.raw_template) /\ AtChunk.d = "inline"

\* the caller asks for parser[template] of a new Parser
LoadCall ==
  /\ pc = "done"
  /\ \E template \in LoadNames :
       /\ io' = Called("__getitem__", template, <<>>)
       /\ Open(template)
  /\ pc' = "loading"
  /\ UNCHANGED <<nodes, scopes, last, scope_depth, src, pvars, fvars, registry,
                 parser, template_dir, raw, htmlsafe_tags, version>>

\* {{ inline NAME }} of a name that the Parser has not stored
Enter ==
  /\ Running
  /\ AtInline
  /\ AtChunk.text \notin DOMAIN parser
  /\ Open(AtChunk.text)
  /\ UNCHANGED <<nodes, scopes, pc, last, scope_depth, src, pvars, fvars, registry,
                 parser, template_dir, io, raw, htmlsafe_tags, version>>

\* the Template of the innermost call after its chunk
Extended ==
  IF AtChunk.d = "inline"
    THEN _AddToOpenScope(Alloc(Innermost.t, Inlined(AtChunk.text)),
                         Len(Innermost.t.nodes) + 1)
    ELSE ExtendChunk(Innermost.t, AtChunk)

\* any other chunk, and {{ inline NAME }} of a stored name
Extend ==
  /\ Running
  /\ Innermost.index <= Len(Innermost.raw_template)
  /\ AtChunk.d = "inline" => AtChunk.text \in DOMAIN parser
  /\ IF Extended.err # NoErr
       THEN frames' = frames /\ err' = Extended.err
       ELSE /\ frames' = [frames EXCEPT ![Len(frames)].t = Extended,
                                        ![Len(frames)].index = @ + 1]
            /\ err' = NoErr
  /\ UNCHANGED <<nodes, scopes, pc, last, scope_depth, src, pvars, fvars, registry,
                 parser, template_dir, io, raw, htmlsafe_tags, version>>

\* the end of AddString in the innermost call, the return of
\* FileTemplate.__init__ and the assignment in Parser.AddTemplate
Finish ==
  /\ Running
  /\ Innermost.index > Len(Innermost.raw_template)
  /\ LET t == AddStringEnd(Innermost.t, Len(Template.scopes)) IN
       IF t.err # NoErr
         THEN /\ err' = t.err
              /\ UNCHANGED <<frames, parser, pc>>
         ELSE /\ err' = NoErr
              /\ frames' = SubSeq(frames, 1, Len(frames) - 1)
              /\ parser' = Set(parser, Innermost.template,
                               [nodes |-> t.nodes, scopes |-> t.scopes, err |-> NoErr,
                                src |-> Innermost.raw_template,
                                file_mtime |-> Innermost.file_mtime])
              /\ pc' = IF Len(frames) = 1 THEN "loaded" ELSE "loading"
  /\ UNCHANGED <<nodes, scopes, last, scope_depth, src, pvars, fvars, registry,
                 template_dir, io, raw, htmlsafe_tags, version>>

\* mutant: the exception is dropped and the call goes on
Unwound_Retry(stack, e) == [frames |-> stack, err |-> NoErr]

\* the except clauses of the innermost FileTemplate.__init__ and of the
\* Parser.AddTemplate that called it
Unwound(stack, e) == [frames |-> SubSeq(stack, 1, Len(stack) - 1), err |-> Caught(e)]

\* an exception leaves the innermost call, or the call of the caller
Unwind ==
  /\ pc = "loading"
  /\ err # NoErr
  /\ IF frames = <<>>
       THEN /\ pc' = "raised"
            /\ raised' = err
            /\ err' = NoErr
            /\ UNCHANGED frames
       ELSE /\ frames' = Unwound(frames, err).frames
            /\ err' = Unwound(frames, err).err
            /\ UNCHANGED <<pc, raised>>
  /\ UNCHANGED <<nodes, scopes, last, scope_depth, src, kwargs, out, evals, found, fvars,
                 registry, parser, template_dir, io, raw, htmlsafe_tags, version>>

\* the steps of the thread that loads
LoadStep == Enter \/ Extend \/ Finish \/ Unwind

NextLoad ==
  \/ LoadCall
  \/ Enter
  \/ Extend
  \/ Finish
  \/ Unwind

SpecLoad == InitLoad /\ [][NextLoad]_vars

\* the thread that loads is not stopped: a step that it can take is taken
SpecLoadFair == SpecLoad /\ WF_vars(LoadStep)

\* C28: every load that was begun ends, with the template stored or with an
\* exception, whatever the files inline: themselves, each other, or no file.
C28_Terminates == (pc = "loading") ~> (pc \in {"loaded", "raised"} /\ frames = <<>>)

\* the load ended as parser[template] of the whole call gives it
C28_AsAWhole ==
  pc \in {"loaded", "raised"} =>
     /\ parser = __getitem__(<<>>, template_dir, io.template, 0).parser
     /\ raised = __getitem__(<<>>, template_dir, io.template, 0).err
     /\ pc = "loaded" <=> io.template \in DOMAIN parser

\* the calls in progress are never more than the interpreter allows
C28_Depth == Len(frames) <= RecursionLimit

\* C28 happens: a file that inlines itself was asked for, and the load ended
\* with RecursionError and nothing stored
C28_Witness ==
  /\ pc = "raised"
  /\ io.template = "a"
  /\ template_dir["a"].content = <<TextC("t"), InlineC("a")>>
  /\ raised.type = "RecursionError"
  /\ parser = <<>>
  /\ frames = <<>>

\* two files that inline each other
C28_Mutual ==
  /\ pc = "raised"
  /\ io.template = "a"
  /\ template_dir["a"].content = <<InlineC("b"), TextC("t")>>
  /\ template_dir["b"].content = <<TextC("t"), InlineC("a")>>
  /\ raised.type = "RecursionError"
  /\ frames = <<>>

-----------------------------------------------------------------------------
(* The templates of a Parser are reloaded while the files are rewritten:   *)
(* parser[NAME] loads a template, and ReloadIfModified is called on a      *)
(* stored one.  The files may inline one another.                          *)

\* what a file may hold: text, inlines of b and of c, which is no file, and a
\* template that leaves a scope open
InlineSources ==
  { <<TextC("t")>>,
    <<TextC("x"), InlineC("b"), TextC("y")>>,
    <<TextC("x"), InlineC("c"), TextC("y")>>,
    <<IfC("tag", <<Tag("x")>>), TextC("A")>> }

InitInline ==
  /\ src = <<>>
  /\ nodes = Template.nodes
  /\ scopes = Template.scopes
  /\ err = NoErr
  /\ pc = "done"
  /\ last = "end"
  /\ scope_depth = Len(Template.scopes)
  /\ NoParse
  /\ NoFile
  /\ NoFunction
  /\ parser = <<>>
  /\ template_dir \in [ParserNames ->
                         {File(<<>>, 0, FALSE, FALSE)}
                           \cup {File(content, 1, TRUE, TRUE) : content \in InlineSources}]
  /\ io = Called("__init__", "", <<>>)
  /\ raw = <<>>
  /\ htmlsafe_tags = <<>>
  /\ frames = <<>>
  /\ version = 0

\* ReloadIfModified from the return of self.AddString(template), t what it
\* left of the emptied Template: the modification time is kept when nothing
\* was raised, and an IOError, which the TemplateReadError of an inline is,
\* is passed over
ReloadedOf(t, template, disk, cached) ==
  [parser |-> Set(t.parser, template,
                  [nodes |-> t.nodes, scopes |-> t.scopes, err |-> NoErr,
                   src |-> disk.content,
                   file_mtime |-> IF t.err = NoErr THEN disk.mtime ELSE cached]),
   err |-> IF t.err.type = "TemplateReadError" THEN NoErr ELSE t.err]

\* FileTemplate.ReloadIfModified of the template the Parser stores under the
\* name
ReloadIfModifiedOf(cache, dir, template) ==
  IF ~dir[template].exists \/ dir[template].mtime <= cache[template].file_mtime
       \/ ~dir[template].readable
    THEN [parser |-> cache, err |-> NoErr]
    ELSE ReloadedOf(AddString(TemplateOf(cache, dir, 0), dir[template].content),
                    template, dir[template], cache[template].file_mtime)

\* a call on the Parser or on one of its templates has returned or raised e
InlineReturns(call, template, p) ==
  /\ io' = Called(call, template, <<>>)
  /\ parser' = p.parser
  /\ raised' = p.err
  /\ UNCHANGED <<cvars, kwargs, out, evals, found, fvars, registry, template_dir, raw,
                 htmlsafe_tags, frames, version>>

\* parser[template]
InlineGetItem ==
  \E template \in ParserNames :
    InlineReturns("__getitem__", template, __getitem__(parser, template_dir, template, 0))

\* parser[template].ReloadIfModified() of a stored template
InlineReload ==
  \E template \in DOMAIN parser :
    InlineReturns("ReloadIfModified", template,
                  ReloadIfModifiedOf(parser, template_dir, template))

\* a file of the directory is written: its modification time advances
WriteInline ==
  \E template \in ParserNames, content \in InlineSources :
    /\ template_dir[template].mtime < MaxMtime
    /\ template_dir' = [template_dir EXCEPT
                          ![template] = File(content, @.mtime + 1, TRUE, TRUE)]
    /\ UNCHANGED <<cvars, pvars, fvars, registry, parser, io, raw, htmlsafe_tags, frames, version>>

NextInline ==
  \/ InlineGetItem
  \/ InlineReload
  \/ WriteInline
  \/ RemoveTemplate

SpecInline == InitInline /\ [][NextInline]_vars

\* the step is a call of ReloadIfModified on the template stored under
\* io'.template
Reloading == io'.call = "ReloadIfModified" /\ template_dir' = template_dir

\* the template is the complete compilation of what its file holds
CompleteOf(t, template) ==
  /\ CanRead(template_dir, template)
  /\ AddString(TemplateOf(parser, template_dir, 0), template_dir[template].content).err = NoErr
  /\ t.nodes =
       AddString(TemplateOf(parser, template_dir, 0), template_dir[template].content).nodes

\* C25 as stated: after a call of ReloadIfModified, whether it returns or
\* raises, the node list of the template is the one it had or the complete
\* compilation of the content of the file, and its scope stack holds only the
\* root.
C25_Original ==
  [][Reloading =>
       /\ parser'[io'.template].scopes = <<1>>
       /\ \/ parser'[io'.template].nodes = parser[io'.template].nodes
          \/ CompleteOf(parser'[io'.template], io'.template)]_vars

\* what holds: a call that raises nothing and has kept the modification time
\* of the file has left the complete compilation of the file's content with
\* only the root in the scope stack; a call that raises, or that had an inline
\* of a file that cannot be read, leaves what AddString had built, with the
\* modification time the template had
C25_Kept ==
  [][(Reloading /\ parser'[io'.template] # parser[io'.template]) =>
       IF parser'[io'.template].file_mtime # parser[io'.template].file_mtime
         THEN /\ raised' = NoErr
              /\ parser'[io'.template].file_mtime = template_dir[io'.template].mtime
              /\ parser'[io'.template].scopes = <<1>>
              /\ CompleteOf(parser'[io'.template], io'.template)
         ELSE ~CompleteOf(parser'[io'.template], io'.template)]_vars

\* C25: the file of a stored template was written with an inline of a file
\* that is not there; ReloadIfModified returned, and the template is the text
\* before the inline
C25_Partial ==
  /\ io.call = "ReloadIfModified"
  /\ raised = NoErr
  /\ io.template \in DOMAIN parser
  /\ parser[io.template].src = <<TextC("x"), InlineC("c"), TextC("y")>>
  /\ Len(parser[io.template].nodes) = 2
  /\ parser[io.template].nodes[2].text = "x"
  /\ parser[io.template].file_mtime < template_dir[io.template].mtime

\* C25, its last part, under SpecFile: no render returns the output of a
\* node list that a failed recompilation left.  (It is violated: after the
\* TemplateSyntaxError of a reload the file is removed, and the next Parse
\* renders what AddString had built.)
C25_Rendered == (pc = "parsed" /\ raised = NoErr) => Compile(src).err = NoErr

-----------------------------------------------------------------------------
(* A FileTemplate and a writer of its file: the thread of the template     *)
(* takes one file operation of FileTemplate.__init__ or of                 *)
(* ReloadIfModified at a step, and the writer replaces or removes the file *)
(* between any two of them.  A write puts the new content in place at once *)
(* and advances the modification time.                                     *)

ConcurrentSources ==
  { <<TagC(Tag("x")), TextC("tail")>>,
    <<TextC("t")>>,
    <<IfC("tag", <<Tag("x")>>), TextC("A")>> }

\* mutant: the file is read before its modification time is asked for
InitOrder_ReadFirst == <<"read", "getmtime", "AddString">>

\* the operations of FileTemplate.__init__ in their order (lines 474-476)
InitOrder == <<"getmtime", "read", "AddString">>

\* the operations of FileTemplate.Parse in their order: those of
\* ReloadIfModified (lines 505-512), then Template.Parse
ReloadOrder == <<"getmtime", "read", "AddString", "assign", "Parse">>

\* a call in progress: the operation it is at, its local mtime, the content
\* it read (template, raw_template) and the modification time the file had
\* when it was read, 0 before the read
Activation(call, at, mtime, template, read) ==
  [call |-> call, at |-> at, mtime |-> mtime, template |-> template, read |-> read]

InitConcurrent ==
  /\ src = <<>>
  /\ nodes = Template.nodes
  /\ scopes = Template.scopes
  /\ err = NoErr
  /\ pc = "loading"
  /\ last = "end"
  /\ scope_depth = Len(Template.scopes)
  /\ NoParse
  /\ file \in {File(content, 1, TRUE, TRUE) : content \in ConcurrentSources}
  /\ file_mtime = 0
  /\ NoFunction
  /\ parser = <<>>
  /\ template_dir = <<>>
  /\ io = <<>>
  /\ raw = <<>>
  /\ htmlsafe_tags = <<>>
  /\ frames = <<Activation("__init__", 1, 0, <<>>, 0)>>
  /\ version = 0

\* what no step of this specification changes
unused == <<err, last, scope_depth, registry, parser, template_dir, io, raw, htmlsafe_tags>>

Active == frames[1]
Operation ==
  IF Active.call = "__init__" THEN InitOrder[Active.at] ELSE ReloadOrder[Active.at]
At(operation) == frames # <<>> /\ Operation = operation

\* the call goes on to its next operation with the locals f; __init__
\* returns after its last
GoesOn(f) ==
  IF f.call = "__init__" /\ f.at = Len(InitOrder)
    THEN frames' = <<>> /\ pc' = "done"
    ELSE frames' = <<[f EXCEPT !.at = @ + 1]>> /\ pc' = pc

\* IOError or OSError in the try: FileTemplate.__init__ raises
\* TemplateReadError, ReloadIfModified passes and Parse renders
Excepts ==
  IF Active.call = "__init__"
    THEN frames' = <<>> /\ pc' = "failed" /\ raised' = Exception("TemplateReadError")
    ELSE frames' = <<[Active EXCEPT !.at = Len(ReloadOrder)]>> /\ pc' = pc /\ raised' = raised

\* os.path.getmtime(self._file_name)
Getmtime ==
  /\ At("getmtime")
  /\ IF ~file.exists
       THEN Excepts /\ file_mtime' = file_mtime
     ELSE IF Active.call = "__init__"
       THEN /\ file_mtime' = file.mtime
            /\ GoesOn([Active EXCEPT !.mtime = file.mtime])
            /\ raised' = raised
     ELSE /\ file_mtime' = file_mtime
          /\ raised' = raised
          /\ pc' = pc
          /\ frames' = <<[Active EXCEPT !.mtime = file.mtime,
                                        !.at = IF file.mtime > file_mtime
                                                 THEN @ + 1 ELSE Len(ReloadOrder)]>>
  /\ UNCHANGED <<nodes, scopes, src, kwargs, out, evals, found, file, version, unused>>

\* open(self._file_name).read()
Read ==
  /\ At("read")
  /\ IF ~file.exists \/ ~file.readable
       THEN Excepts
       ELSE /\ GoesOn([Active EXCEPT !.template = file.content, !.read = file.mtime])
            /\ raised' = raised
  /\ UNCHANGED <<nodes, scopes, src, kwargs, out, evals, found, fvars, version, unused>>

\* Template.__init__ in FileTemplate.__init__; `del self[:]`, `self.scopes =
\* [self]` and self.AddString(template) in ReloadIfModified.  An exception
\* of AddString leaves the call, and Parse with it
Compiles ==
  /\ At("AddString")
  /\ nodes' = Compile(Active.template).nodes
  /\ scopes' = Compile(Active.template).scopes
  /\ src' = Active.template
  /\ version' = Active.read
  /\ IF Compile(Active.template).err # NoErr
       THEN /\ frames' = <<>>
            /\ pc' = IF Active.call = "__init__" THEN "failed" ELSE "parsed"
            /\ raised' = Compile(Active.template).err
       ELSE GoesOn(Active) /\ raised' = NoErr
  /\ UNCHANGED <<kwargs, out, evals, found, fvars, unused>>

\* self._file_mtime = mtime
Assigns ==
  /\ At("assign")
  /\ file_mtime' = Active.mtime
  /\ GoesOn(Active)
  /\ UNCHANGED <<nodes, scopes, src, pvars, file, version, unused>>

\* super(FileTemplate, self).Parse(**kwds)
Renders ==
  /\ At("Parse")
  /\ Returns(TemplateParse(nodes, [name \in {"x"} |-> PyInt(1)]),
             [name \in {"x"} |-> PyInt(1)])
  /\ frames' = <<>>
  /\ UNCHANGED <<scopes, src, fvars, version, unused>>

\* FileTemplate.Parse(x=1) is called on the loaded template
ParseCall ==
  /\ frames = <<>>
  /\ pc \in {"done", "parsed"}
  /\ frames' = <<Activation("ReloadIfModified", 1, 0, <<>>, 0)>>
  /\ UNCHANGED <<nodes, scopes, pc, src, pvars, fvars, version, unused>>

\* the writer replaces the file: its modification time advances
WriteNewer ==
  /\ file.mtime < MaxMtime
  /\ \E content \in ConcurrentSources :
       file' = File(content, file.mtime + 1, TRUE, TRUE)
  /\ UNCHANGED <<cvars, pvars, file_mtime, registry, dvars>>

NextConcurrent ==
  \/ Getmtime
  \/ Read
  \/ Compiles
  \/ Assigns
  \/ Renders
  \/ ParseCall
  \/ WriteNewer
  \/ RemoveFile

SpecConcurrent == InitConcurrent /\ [][NextConcurrent]_vars

\* ReloadIfModified has returned without exception in a Parse that could do
\* the file operations it needed
ReloadedNow ==
  /\ At("Parse")
  /\ Active.mtime > 0
  /\ Active.read > 0 \/ Active.mtime <= file_mtime

\* C27: with a writer that advances the modification time at every write,
\* the cached modification time never decreases; once content is compiled it
\* is never greater than the modification time the file had when that content
\* was read; and after the ReloadIfModified of a Parse that could read the
\* file, the compiled content is no older than the file was when the Parse
\* asked for its modification time: a write before it was picked up.
C27_Step ==
  /\ file_mtime' >= file_mtime
  /\ version' > 0 => file_mtime' <= version'
  /\ ReloadedNow' => version' >= Active'.mtime

C27_StatBeforeRead == [][C27_Step]_vars

\* C27 happens: in a Parse the writer wrote between the getmtime and the
\* read of ReloadIfModified; the content read was compiled, and the cached
\* modification time is the older one that getmtime gave
C27_Witness ==
  /\ At("Parse")
  /\ Active.read > Active.mtime
  /\ file_mtime = Active.mtime
  /\ version = Active.read
  /\ src = file.content

=============================================================================
